---- MODULE Spec2Model ----
(***************************************************************************)
(* FileWise: the heuristic compression classifier of the local queue       *)
(* (FileCompression.analyzeFile) and of the cloud panel                    *)
(* (CompressionSuggestions.handleAnalyzeClick), and the per-file state     *)
(* machines that apply its advice.                                         *)
(*                                                                         *)
(* A type string is a sequence of one-character strings, so that           *)
(* toLowerCase and includes are computed character by character.           *)
(***************************************************************************)
EXTENDS Integers, Sequences, FiniteSets, Bags, TLC

----------------------------------------------------------------------------
(* Bounds of the model *)

\* Math.random() is drawn from { n / RandDen : n \in 0 .. RandDen-1 }
RandDen == 4

\* the number of files the user puts in the local queue
MaxFiles == 2

\* the number of files the user puts in the local queue when the body of a
\* try block can throw
MaxFaultFiles == 1

\* the number of files that are added where the files are text files
MaxTextFiles == 1

\* the number of calls of fetchSuggestions that wait at their await at once
MaxFetches == 2

----------------------------------------------------------------------------
(* Program constants *)

KB == 1024
MB == KB * KB

----------------------------------------------------------------------------
(* Strings: String.prototype.toLowerCase and String.prototype.includes *)

UpperCase == <<"A", "B", "C", "D", "E", "F", "G", "H", "I", "J", "K", "L", "M", "N", "O", "P", "Q", "R", "S", "T", "U", "V", "W", "X", "Y", "Z">>

LowerCase == <<"a", "b", "c", "d", "e", "f", "g", "h", "i", "j", "k", "l", "m", "n", "o", "p", "q", "r", "s", "t", "u", "v", "w", "x", "y", "z">>

\* the lower-case letter of every upper-case letter
caseMap ==
    [ c \in { UpperCase[i] : i \in 1..26 } |->
        LowerCase[CHOOSE i \in 1..26 : UpperCase[i] = c] ]

toLowerChar(c) == IF c \in DOMAIN caseMap THEN caseMap[c] ELSE c

toLowerCase(s) == [i \in 1..Len(s) |-> toLowerChar(s[i])]

includes(s, sub) ==
    \E i \in 0..(Len(s) - Len(sub)) : \A j \in 1..Len(sub) : s[i + j] = sub[j]

\* the type signals of the decision table
sig_jpeg == <<"j", "p", "e", "g">>
sig_jpg == <<"j", "p", "g">>
sig_mp3 == <<"m", "p", "3">>
sig_aac == <<"a", "a", "c">>
sig_mp4 == <<"m", "p", "4">>
sig_mov == <<"m", "o", "v">>
sig_zip == <<"z", "i", "p">>
sig_7z == <<"7", "z">>
sig_gz == <<"g", "z">>
sig_heic == <<"h", "e", "i", "c">>
sig_png == <<"p", "n", "g">>
sig_gif == <<"g", "i", "f">>
sig_tiff == <<"t", "i", "f", "f">>
sig_bmp == <<"b", "m", "p">>
sig_wav == <<"w", "a", "v">>
sig_aiff == <<"a", "i", "f", "f">>
sig_text == <<"t", "e", "x", "t">>
sig_csv == <<"c", "s", "v">>
sig_log == <<"l", "o", "g">>
sig_html == <<"h", "t", "m", "l">>
sig_css == <<"c", "s", "s">>
sig_js == <<"j", "s">>
sig_json == <<"j", "s", "o", "n">>
sig_xml == <<"x", "m", "l">>

\* type strings the descriptors are drawn from
mime_empty == <<>>

mime_image_jpeg == <<"i", "m", "a", "g", "e", "/", "j", "p", "e", "g">>

mime_IMAGE_JPEG == <<"I", "M", "A", "G", "E", "/", "J", "P", "E", "G">>

mime_image_jpg == <<"i", "m", "a", "g", "e", "/", "j", "p", "g">>

mime_audio_mp3 == <<"a", "u", "d", "i", "o", "/", "m", "p", "3">>

mime_audio_aac == <<"a", "u", "d", "i", "o", "/", "a", "a", "c">>

mime_video_mp4 == <<"v", "i", "d", "e", "o", "/", "m", "p", "4">>

mime_video_mov == <<"v", "i", "d", "e", "o", "/", "m", "o", "v">>

mime_application_zip == <<"a", "p", "p", "l", "i", "c", "a", "t", "i", "o", "n", "/", "z", "i", "p">>

mime_application_x7z == <<"a", "p", "p", "l", "i", "c", "a", "t", "i", "o", "n", "/", "x", "-", "7", "z">>

mime_application_gz == <<"a", "p", "p", "l", "i", "c", "a", "t", "i", "o", "n", "/", "g", "z">>

mime_image_heic == <<"i", "m", "a", "g", "e", "/", "h", "e", "i", "c">>

mime_image_png == <<"i", "m", "a", "g", "e", "/", "p", "n", "g">>

mime_IMAGE_PNG == <<"I", "M", "A", "G", "E", "/", "P", "N", "G">>

mime_Image_Png == <<"I", "m", "a", "g", "e", "/", "P", "n", "g">>

mime_image_gif == <<"i", "m", "a", "g", "e", "/", "g", "i", "f">>

mime_image_tiff == <<"i", "m", "a", "g", "e", "/", "t", "i", "f", "f">>

mime_image_bmp == <<"i", "m", "a", "g", "e", "/", "b", "m", "p">>

mime_audio_wav == <<"a", "u", "d", "i", "o", "/", "w", "a", "v">>

mime_audio_aiff == <<"a", "u", "d", "i", "o", "/", "a", "i", "f", "f">>

mime_text_plain == <<"t", "e", "x", "t", "/", "p", "l", "a", "i", "n">>

mime_app_csv == <<"a", "p", "p", "/", "c", "s", "v">>

mime_app_log == <<"a", "p", "p", "/", "l", "o", "g">>

mime_app_html == <<"a", "p", "p", "/", "h", "t", "m", "l">>

mime_app_css == <<"a", "p", "p", "/", "c", "s", "s">>

mime_app_js == <<"a", "p", "p", "/", "j", "s">>

mime_application_json == <<"a", "p", "p", "l", "i", "c", "a", "t", "i", "o", "n", "/", "j", "s", "o", "n">>

mime_application_xml == <<"a", "p", "p", "l", "i", "c", "a", "t", "i", "o", "n", "/", "x", "m", "l">>

mime_application_octet_stream == <<"a", "p", "p", "l", "i", "c", "a", "t", "i", "o", "n", "/", "o", "c", "t", "e", "t", "-", "s", "t", "r", "e", "a", "m">>

mime_application_pdf == <<"a", "p", "p", "l", "i", "c", "a", "t", "i", "o", "n", "/", "p", "d", "f">>

mime_audio_mpeg == <<"a", "u", "d", "i", "o", "/", "m", "p", "e", "g">>

mime_text_zip == <<"t", "e", "x", "t", "/", "z", "i", "p">>

mime_png_xml == <<"p", "n", "g", "+", "x", "m", "l">>

mime_wav_log == <<"w", "a", "v", "+", "l", "o", "g">>

mime_gif_aiff == <<"g", "i", "f", "+", "a", "i", "f", "f">>

mime_jpg_png == <<"j", "p", "g", "+", "p", "n", "g">>

MimeTypes ==
    { mime_empty, mime_image_jpeg, mime_IMAGE_JPEG, mime_image_jpg,
      mime_audio_mp3, mime_audio_aac, mime_video_mp4, mime_video_mov,
      mime_application_zip, mime_application_x7z, mime_application_gz, mime_image_heic,
      mime_image_png, mime_IMAGE_PNG, mime_Image_Png, mime_image_gif,
      mime_image_tiff, mime_image_bmp, mime_audio_wav, mime_audio_aiff,
      mime_text_plain, mime_app_csv, mime_app_log, mime_app_html,
      mime_app_css, mime_app_js, mime_application_json, mime_application_xml,
      mime_application_octet_stream, mime_application_pdf, mime_audio_mpeg, mime_text_zip,
      mime_png_xml, mime_wav_log, mime_gif_aiff, mime_jpg_png }

\* file sizes in bytes, on and around every threshold of the two classifiers
FileSizes ==
    { 0, 50 * KB, 100 * KB - 1, 100 * KB, 200 * KB - 1, 200 * KB,
      MB, MB + 1, 5 * MB, 5 * MB + 1, 10 * MB, 10 * MB + 1,
      20 * MB, 20 * MB + 1, 25 * MB, 300 * MB }

\* the numerators n of the values n / RandDen that Math.random() returns
RandomDraws == 0 .. (RandDen - 1)

----------------------------------------------------------------------------
(* The advice (AnalyzeCompressionQualityOutput) *)

\* estimatedReductionPercent is a set: empty when undefined, {p} when p
undefined == {}

min(a, b) == IF a < b THEN a ELSE b

max(a, b) == IF a > b THEN a ELSE b

\* Math.floor(base + Math.random() * span) for Math.random() = n / RandDen
floorRandom(base, span, n) == base + ((span * n) \div RandDen)

Advice(sc, method, est, descr) ==
    [ shouldCompress |-> sc,
      recommendedMethod |-> method,
      estimatedReductionPercent |-> est,
      qualityImpactDescription |-> descr ]

----------------------------------------------------------------------------
(* The rows of the decision table: the conditions of the if / else-if chain *)

isAlreadyCompressed(lowerCaseType) ==
    \/ includes(lowerCaseType, sig_jpeg) \/ includes(lowerCaseType, sig_jpg)
    \/ includes(lowerCaseType, sig_mp3)  \/ includes(lowerCaseType, sig_aac)
    \/ includes(lowerCaseType, sig_mp4)  \/ includes(lowerCaseType, sig_mov)
    \/ includes(lowerCaseType, sig_zip)  \/ includes(lowerCaseType, sig_7z)
    \/ includes(lowerCaseType, sig_gz)   \/ includes(lowerCaseType, sig_heic)

isLosslessImage(lowerCaseType) ==
    \/ includes(lowerCaseType, sig_png)  \/ includes(lowerCaseType, sig_gif)
    \/ includes(lowerCaseType, sig_tiff) \/ includes(lowerCaseType, sig_bmp)

isLosslessAudioMissingAiff(lowerCaseType) ==
    includes(lowerCaseType, sig_wav)

isLosslessAudio(lowerCaseType) ==
    includes(lowerCaseType, sig_wav) \/ includes(lowerCaseType, sig_aiff)

isText(lowerCaseType) ==
    \/ includes(lowerCaseType, sig_text) \/ includes(lowerCaseType, sig_csv)
    \/ includes(lowerCaseType, sig_log)  \/ includes(lowerCaseType, sig_html)
    \/ includes(lowerCaseType, sig_css)  \/ includes(lowerCaseType, sig_js)
    \/ includes(lowerCaseType, sig_json) \/ includes(lowerCaseType, sig_xml)

----------------------------------------------------------------------------
(* The classifier of the local queue: FileCompression.analyzeFile *)

\* the size override of the first row
efficientlyCompressed ==
    Advice(FALSE, "none", undefined, "Likely already efficiently compressed.")

\* mutants of the first row
alreadyCompressedKeepsShouldCompress(fileSize, n) ==
    IF fileSize < 1024 * 200
    THEN Advice(TRUE, "none", undefined, "Likely already efficiently compressed.")
    ELSE Advice(TRUE,
                IF fileSize > 10 * 1024 * 1024 THEN "lossy_high_quality" ELSE "lossless_optimized",
                {floorRandom(5, 20, n)},
                "Potential minor reduction via re-optimization.")

alreadyCompressedKeepsEstimate(fileSize, n) ==
    IF fileSize < 1024 * 200
    THEN Advice(FALSE, "none", {floorRandom(5, 20, n)}, "Likely already efficiently compressed.")
    ELSE Advice(TRUE,
                IF fileSize > 10 * 1024 * 1024 THEN "lossy_high_quality" ELSE "lossless_optimized",
                {floorRandom(5, 20, n)},
                "Potential minor reduction via re-optimization.")

alreadyCompressedInclusiveThresholds(fileSize, n) ==
    IF fileSize <= 1024 * 200
    THEN efficientlyCompressed
    ELSE Advice(TRUE,
                IF fileSize >= 10 * 1024 * 1024 THEN "lossy_high_quality" ELSE "lossless_optimized",
                {floorRandom(5, 20, n)},
                "Potential minor reduction via re-optimization.")

\* lines 453-461
alreadyCompressedAdvice(fileSize, n) ==
    IF fileSize < 1024 * 200
    THEN efficientlyCompressed
    ELSE Advice(TRUE,
                IF fileSize > 10 * 1024 * 1024 THEN "lossy_high_quality" ELSE "lossless_optimized",
                {floorRandom(5, 20, n)},
                "Potential minor reduction via re-optimization.")

\* lines 463-465
losslessImageAdvice(n) ==
    Advice(TRUE, "lossless_optimized", {floorRandom(20, 40, n)},
           "Good candidate for lossless optimization.")

\* lines 467-469
losslessAudioAdvice(n) ==
    Advice(TRUE, "lossless_optimized", {floorRandom(40, 30, n)},
           "Significant savings via lossless audio codec (e.g., FLAC).")

textAdviceWideJitter(n) ==
    Advice(TRUE, "lossless_optimized", {floorRandom(60, 45, n)},
           "Highly compressible with no quality loss.")

\* lines 471-473
textAdvice(n) ==
    Advice(TRUE, "lossless_optimized", {floorRandom(60, 30, n)},
           "Highly compressible with no quality loss.")

\* mutants of the default row
defaultAdviceInclusiveThreshold(fileSize, n) ==
    Advice(TRUE,
           IF fileSize >= 20 * 1024 * 1024 THEN "lossy_balanced" ELSE "lossless_optimized",
           {floorRandom(30, 40, n)},
           "Compression viable, potential quality trade-off depending on content.")

defaultAdviceMethodByJitter(fileSize, n) ==
    Advice(TRUE,
           IF fileSize > 20 * 1024 * 1024 \/ floorRandom(30, 40, n) > 50
           THEN "lossy_balanced" ELSE "lossless_optimized",
           {floorRandom(30, 40, n)},
           "Compression viable, potential quality trade-off depending on content.")

\* lines 476-478
defaultAdvice(fileSize, n) ==
    Advice(TRUE,
           IF fileSize > 20 * 1024 * 1024 THEN "lossy_balanced" ELSE "lossless_optimized",
           {floorRandom(30, 40, n)},
           "Compression viable, potential quality trade-off depending on content.")

\* mutant: the text row is tested before the others
dummyAnalysisTextFirst(fileSize, fileType, n) ==
    LET lowerCaseType == toLowerCase(fileType) IN
    IF isText(lowerCaseType) THEN textAdvice(n)
    ELSE IF isAlreadyCompressed(lowerCaseType) THEN alreadyCompressedAdvice(fileSize, n)
    ELSE IF isLosslessImage(lowerCaseType) THEN losslessImageAdvice(n)
    ELSE IF isLosslessAudio(lowerCaseType) THEN losslessAudioAdvice(n)
    ELSE defaultAdvice(fileSize, n)

\* dummyAnalysis, were the type matched as it is written
dummyAnalysisCaseSensitive(fileSize, fileType, n) ==
    LET lowerCaseType == fileType IN
    IF isAlreadyCompressed(lowerCaseType) THEN alreadyCompressedAdvice(fileSize, n)
    ELSE IF isLosslessImage(lowerCaseType) THEN losslessImageAdvice(n)
    ELSE IF isLosslessAudio(lowerCaseType) THEN losslessAudioAdvice(n)
    ELSE IF isText(lowerCaseType) THEN textAdvice(n)
    ELSE defaultAdvice(fileSize, n)

\* lines 444-486: the advice for a file of type fileType and fileSize bytes
\* when Math.random() returns n / RandDen
dummyAnalysis(fileSize, fileType, n) ==
    LET lowerCaseType == toLowerCase(fileType) IN
    IF isAlreadyCompressed(lowerCaseType) THEN alreadyCompressedAdvice(fileSize, n)
    ELSE IF isLosslessImage(lowerCaseType) THEN losslessImageAdvice(n)
    ELSE IF isLosslessAudio(lowerCaseType) THEN losslessAudioAdvice(n)
    ELSE IF isText(lowerCaseType) THEN textAdvice(n)
    ELSE defaultAdvice(fileSize, n)

----------------------------------------------------------------------------
(* The classifier of the cloud panel: CompressionSuggestions.handleAnalyzeClick *)

\* lines 96-104
cloudAlreadyCompressedAdvice(fileSize, n) ==
    IF fileSize < 1024 * 100
    THEN efficientlyCompressed
    ELSE Advice(TRUE,
                IF fileSize > 5 * 1024 * 1024 THEN "lossy_high_quality" ELSE "lossless_optimized",
                {floorRandom(5, 20, n)},
                "Potential minor reduction via re-optimization.")

\* line 124: Math.random() < 0.1 && fileSize > 1024 * 1024, Math.random() = m / RandDen
simulateUncompressible(fileSize, m) ==
    10 * m < RandDen /\ fileSize > 1024 * 1024

\* lines 95-121: the table of the cloud panel
cloudTableAdvice(fileSize, fileType, n) ==
    LET lowerCaseType == toLowerCase(fileType) IN
    IF isAlreadyCompressed(lowerCaseType) THEN cloudAlreadyCompressedAdvice(fileSize, n)
    ELSE IF isLosslessImage(lowerCaseType) THEN losslessImageAdvice(n)
    ELSE IF isLosslessAudio(lowerCaseType) THEN losslessAudioAdvice(n)
    ELSE IF isText(lowerCaseType) THEN textAdvice(n)
    ELSE defaultAdvice(fileSize, n)

\* lines 89-137: the advice of the cloud panel when the two calls of
\* Math.random() return n / RandDen and m / RandDen
result(fileSize, fileType, n, m) ==
    IF simulateUncompressible(fileSize, m)
    THEN Advice(FALSE, "none", undefined,
                "File type/content suggests compression won't be effective.")
    ELSE cloudTableAdvice(fileSize, fileType, n)

----------------------------------------------------------------------------
(* State *)

VARIABLES
    fileType,           \* the type string of the descriptor being classified
    fileSize,           \* its size in bytes
    run,                \* the latest classification of the descriptor
    prevClassifier,     \* the classifier of the run that run replaced, or "none"
    selectedFiles,      \* FileCompression: the queue, an array of SelectedFile
    compressionLevel,   \* FileCompression: the selected level
    analysisTasks,      \* calls of analyzeFile waiting at their await
    compressionTasks,   \* per-file tasks of handleCompression waiting at an await
    now,                \* Date.now()
    filesLeft,          \* the number of files the user is still to add
    maxBatch,           \* the largest number of files the user adds at once
    localFiles,         \* the Files the user can pick from
    isLoggedIn,         \* CompressionSuggestions: prop
    suggestions,        \* CompressionSuggestions: prop
    analysisResults,    \* CompressionSuggestions: Record<path, AnalysisState>
    cloudAnalysisTasks, \* calls of handleAnalyzeClick waiting at their await
    flow,               \* the call of analyzeCompressionQuality and where it stands
    download,           \* FileCompression: what the last call of handleDownload did
    isLoadingSuggestions, \* Home: state
    fetchError,         \* Home: the state error, {} when null
    userName,           \* Home: state, {} when undefined
    fetchTasks          \* calls of fetchSuggestions waiting at their await

classifyVars == <<fileType, fileSize, run, prevClassifier>>

queueVars ==
    <<selectedFiles, compressionLevel, analysisTasks, compressionTasks, now, filesLeft,
      maxBatch, localFiles>>

cloudVars == <<isLoggedIn, suggestions, analysisResults, cloudAnalysisTasks>>

flowVars == <<flow>>

downloadVars == <<download>>

pageVars == <<isLoadingSuggestions, fetchError, userName, fetchTasks>>

vars == <<classifyVars, queueVars, cloudVars, flowVars, downloadVars, pageVars>>

NoRun == [classifier |-> "none"]

Run(c, n, o, a) == [classifier |-> c, rnd |-> n, override |-> o, advice |-> a]

\* nothing is being classified
ClassifyIdle ==
    /\ fileType = <<>>
    /\ fileSize = 0
    /\ run = NoRun
    /\ prevClassifier = "none"

\* handleDownload has not been called
NoDownload == [kind |-> "none"]

\* FileCompression as mounted: useState([]) and useState('lossless_optimized')
QueueInit(files, batch, folder) ==
    /\ selectedFiles = <<>>
    /\ compressionLevel = "lossless_optimized"
    /\ analysisTasks = EmptyBag
    /\ compressionTasks = EmptyBag
    /\ now = 0
    /\ filesLeft = files
    /\ maxBatch = batch
    /\ localFiles = folder
    /\ download = NoDownload

\* CompressionSuggestions as mounted, logged out and without suggestions
CloudIdle ==
    /\ isLoggedIn = FALSE
    /\ suggestions = <<>>
    /\ analysisResults = << >>
    /\ cloudAnalysisTasks = EmptyBag
    /\ isLoadingSuggestions = FALSE
    /\ fetchError = {}
    /\ userName = {}
    /\ fetchTasks = EmptyBag

\* a JavaScript value that is undefined, null, a boolean, a number or a string
jsUndefined == [kind |-> "undefined"]

jsNull == [kind |-> "null"]

jsBoolean(b) == [kind |-> "boolean", value |-> b]

jsNumber(n) == [kind |-> "number", value |-> n]

jsString(str) == [kind |-> "string", value |-> str]

\* analyzeCompressionQuality has not been called
FlowIdle ==
    flow = [pc |-> "idle", filePath |-> <<>>, fileInfo |-> jsNull,
            output |-> jsUndefined, error |-> "none"]

----------------------------------------------------------------------------
(* Classification of one descriptor, repeated *)

InitClassify ==
    /\ fileType \in MimeTypes
    /\ fileSize \in FileSizes
    /\ run = NoRun
    /\ prevClassifier = "none"
    /\ QueueInit(0, 0, {})
    /\ CloudIdle
    /\ FlowIdle

\* one run of the classification of analyzeFile
ClassifyLocal ==
    \E n \in RandomDraws :
        /\ run' = Run("local", n, FALSE, dummyAnalysis(fileSize, fileType, n))
        /\ prevClassifier' = run.classifier
        /\ UNCHANGED <<pageVars, downloadVars, flowVars, fileType, fileSize, queueVars, cloudVars>>

\* one run of the classification of handleAnalyzeClick
ClassifyCloud ==
    \E n \in RandomDraws, m \in RandomDraws :
        /\ run' = Run("cloud", n, simulateUncompressible(fileSize, m),
                      result(fileSize, fileType, n, m))
        /\ prevClassifier' = run.classifier
        /\ UNCHANGED <<pageVars, downloadVars, flowVars, fileType, fileSize, queueVars, cloudVars>>

NextClassify == ClassifyLocal \/ ClassifyCloud

SpecClassify == InitClassify /\ [][NextClassify]_vars

----------------------------------------------------------------------------
(* The local queue: FileCompression *)

\* line 572
steps == 15

name_c_jpg == <<"c", ".", "j", "p", "g">>

name_a_txt == <<"a", ".", "t", "x", "t">>

name_clip == <<"c", "l", "i", "p">>

name_IMG_1024_heic == <<"I", "M", "G", "_", "1", "0", "2", "4", ".", "h", "e", "i", "c">>

path_IMG_1024_heic == <<"/", "c", "l", "o", "u", "d", "/", "p", "h", "o", "t", "o", "s", "/", "D", "C", "I", "M", "/", "I", "M", "G", "_", "1", "0", "2", "4", ".", "h", "e", "i", "c">>

File(name, size, type) == [name |-> name, size |-> size, type |-> type]

\* the File objects that the file input or a drop hands to addFiles
LocalFiles ==
    { File(name_c_jpg, 20, mime_image_jpeg),
      File(name_clip, 100 * KB, mime_audio_mp3) }

\* the same when the user picks several at once, from a view that can show
\* two files of one name and size
BatchFiles ==
    { File(name_c_jpg, 20, mime_image_jpeg),
      File(name_a_txt, 2 * KB, mime_text_plain) }

\* text files, one of them small
TextFiles ==
    { File(name_a_txt, 100, mime_text_plain),
      File(name_a_txt, 2 * KB, mime_text_plain) }

\* page.tsx, dummySuggestions (line 28)
dummySuggestions ==
    << [ name |-> name_IMG_1024_heic, size |-> 9 * 1024 * 1024,
         type |-> mime_image_heic, path |-> path_IMG_1024_heic ] >>

\* page.tsx lines 161-165: the File made for a suggestion; its content is
\* `Simulated cloud content for ${fileName}. Path: ${filePath}`
dummyFile(suggestion) ==
    File(suggestion.name, 28 + Len(suggestion.name) + 8 + Len(suggestion.path),
         suggestion.type)

CompressionLevels == { "lossless_optimized", "high", "medium", "low" }

NoAnalysis == [kind |-> "undefined"]

NullAnalysis == [kind |-> "null"]

SomeAnalysis(a) == [kind |-> "advice", advice |-> a]

\* lines 409-416: the SelectedFile of addFiles
newLocalFile(file, time) ==
    [ id |-> <<file.name, file.size, time>>,
      file |-> file,
      status |-> "pending",
      progress |-> 0,
      originalSize |-> file.size,
      compressedSize |-> undefined,
      compressedBlob |-> undefined,
      compressedFileName |-> undefined,
      error |-> undefined,
      analysis |-> NoAnalysis,
      source |-> {"local"},
      sourcePath |-> undefined ]

\* lines 364-372: the SelectedFile of addFileToLocalQueue; sourceInfo is
\* always passed by the page
newCloudFile(file, sourceInfo) ==
    [ id |-> <<file.name, sourceInfo.originalSize, now>>,
      file |-> file,
      status |-> "pending",
      progress |-> 0,
      originalSize |-> sourceInfo.originalSize,
      compressedSize |-> undefined,
      compressedBlob |-> undefined,
      compressedFileName |-> undefined,
      error |-> undefined,
      analysis |-> NoAnalysis,
      source |-> {"cloud"},
      sourcePath |-> {sourceInfo.path} ]

\* prevFiles.map(f => f.id === fileId ? update(f) : f)
mapFile(prevFiles, fileId, update) ==
    [ i \in DOMAIN prevFiles |->
        IF prevFiles[i].id = fileId THEN update[prevFiles[i]] ELSE prevFiles[i] ]

\* the entries of an array
entries(files) == { files[i] : i \in DOMAIN files }

\* lines 423-425
setAnalyzing(f) == [f EXCEPT !.status = "analyzing", !.progress = 0]

AnalysisTask(fileId, fileName, size, type) ==
    [fileId |-> fileId, fileName |-> fileName, fileSize |-> size, fileType |-> type]

\* the files of the queue with status st
withStatus(files, st) == { i \in DOMAIN files : files[i].status \in st }

\* line 745
isProcessingAny == withStatus(selectedFiles, {"compressing", "analyzing"}) # {}

----------------------------------------------------------------------------
(* addFiles, addFileToLocalQueue, analyzeFile, removeFile *)

RECURSIVE bagOf(_)
\* the bag of the elements of an array
bagOf(s) == IF s = <<>> THEN EmptyBag ELSE SetToBag({Head(s)}) (+) bagOf(Tail(s))

\* the arrays of n Files that the file input or a drop can hand to addFiles
FileLists(n) == [1..n -> localFiles]

\* what the n calls of Date.now() of line 410 can return: the clock does not
\* go back, and it advances by at most one between two calls
Stamps(n) ==
    { stamp \in [1..n -> now..(now + n - 1)] :
        /\ stamp[1] = now
        /\ \A k \in 1..(n - 1) : stamp[k + 1] - stamp[k] \in {0, 1} }

RECURSIVE analyzeAll(_, _, _)
\* the updates of line 424 that the forEach of line 419 queues, in order
analyzeAll(files, newFiles, k) ==
    IF k > Len(newFiles) THEN files
    ELSE analyzeAll(mapFile(files, newFiles[k].id,
                        [f \in entries(files) |-> setAnalyzing(f)]), newFiles, k + 1)

\* lines 408-420 and 422-438: addFiles and, for each new file, the part of
\* analyzeFile before its await
addFiles ==
    \E n \in 1..min(filesLeft, maxBatch) :
        \E files \in FileLists(n), stamp \in Stamps(n) :
            LET newFiles == [k \in 1..n |-> newLocalFile(files[k], stamp[k])] IN
            /\ selectedFiles' = analyzeAll(selectedFiles \o newFiles, newFiles, 1)
            /\ analysisTasks' = analysisTasks (+)
                  bagOf([k \in 1..n |-> AnalysisTask(newFiles[k].id, files[k].name,
                                                     files[k].size, files[k].type)])
            /\ now' = stamp[n] + 1
            /\ filesLeft' = filesLeft - n
            /\ UNCHANGED <<pageVars, downloadVars, flowVars, compressionLevel, compressionTasks, maxBatch, localFiles, classifyVars, cloudVars>>

\* lines 362-376 and 422-438, reached from the button of
\* compression-suggestions.tsx lines 63-71 and 472 through page.tsx lines 142-176
addFileToLocalQueue ==
    \E k \in DOMAIN suggestions :
        /\ isLoggedIn
        /\ filesLeft > 0
        /\ LET suggestion == suggestions[k]
               file == dummyFile(suggestion)
               nf == newCloudFile(file, [path |-> suggestion.path,
                                         originalSize |-> suggestion.size])
           IN
            /\ selectedFiles' = mapFile(Append(selectedFiles, nf), nf.id,
                [f \in entries(Append(selectedFiles, nf)) |-> setAnalyzing(f)])
            /\ analysisTasks' = analysisTasks (+)
                  SetToBag({AnalysisTask(nf.id, file.name, nf.originalSize, file.type)})
        /\ now' = now + 1
        /\ filesLeft' = filesLeft - 1
        /\ UNCHANGED <<pageVars, downloadVars, flowVars, compressionLevel, compressionTasks, maxBatch, localFiles, classifyVars, cloudVars>>

\* analyzeFileSucceeds, were a result for an id that is not in the queue to
\* put the file back
analyzeFileSucceedsRestores ==
    \E task \in BagToSet(analysisTasks), n \in RandomDraws :
        LET analysisResult == dummyAnalysis(task.fileSize, task.fileType, n)
            setPending(f) == [f EXCEPT !.status = "pending",
                                       !.analysis = SomeAnalysis(analysisResult)]
            restored == newLocalFile(File(task.fileName, task.fileSize, task.fileType),
                                     task.fileId[3])
            prevFiles == IF \E i \in DOMAIN selectedFiles : selectedFiles[i].id = task.fileId
                         THEN selectedFiles
                         ELSE Append(selectedFiles, restored)
        IN
        /\ selectedFiles' = mapFile(prevFiles, task.fileId,
                [f \in entries(prevFiles) |-> setPending(f)])
        /\ analysisTasks' = analysisTasks (-) SetToBag({task})
        /\ UNCHANGED <<pageVars, downloadVars, flowVars, compressionLevel, compressionTasks, now, filesLeft, maxBatch, localFiles,
                       classifyVars, cloudVars>>

\* analyzeFileSucceeds, were the advice 'none' reported as a failed analysis
analyzeFileSucceedsNoneIsError ==
    \E task \in BagToSet(analysisTasks), n \in RandomDraws :
        LET analysisResult == dummyAnalysis(task.fileSize, task.fileType, n)
            setPending(f) ==
                IF analysisResult.recommendedMethod = "none"
                THEN [f EXCEPT !.status = "error", !.error = {"Analysis failed"},
                               !.analysis = NullAnalysis]
                ELSE [f EXCEPT !.status = "pending",
                               !.analysis = SomeAnalysis(analysisResult)]
        IN
        /\ selectedFiles' = mapFile(selectedFiles, task.fileId,
                [f \in entries(selectedFiles) |-> setPending(f)])
        /\ analysisTasks' = analysisTasks (-) SetToBag({task})
        /\ UNCHANGED <<pageVars, downloadVars, flowVars, compressionLevel, compressionTasks, now, filesLeft, maxBatch, localFiles, classifyVars, cloudVars>>

\* analysisApplied, were the result applied to every entry of the queue
analysisAppliedToAll(prevFiles, task, n) ==
    LET analysisResult == dummyAnalysis(task.fileSize, task.fileType, n)
        setPending(f) == [f EXCEPT !.status = "pending",
                                   !.analysis = SomeAnalysis(analysisResult)]
    IN  [i \in DOMAIN prevFiles |-> setPending(prevFiles[i])]

\* lines 444-506: the queue after the result of an analysis with the draw n
\* is applied to it
analysisApplied(prevFiles, task, n) ==
    LET analysisResult == dummyAnalysis(task.fileSize, task.fileType, n)
        setPending(f) == [f EXCEPT !.status = "pending",
                                   !.analysis = SomeAnalysis(analysisResult)]
    IN  mapFile(prevFiles, task.fileId, [f \in entries(prevFiles) |-> setPending(f)])

\* lines 438-523: analyzeFile after its await, when nothing of the try block throws
analyzeFileSucceeds ==
    \E task \in BagToSet(analysisTasks), n \in RandomDraws :
        /\ selectedFiles' = analysisApplied(selectedFiles, task, n)
        /\ analysisTasks' = analysisTasks (-) SetToBag({task})
        /\ UNCHANGED <<pageVars, downloadVars, flowVars, compressionLevel, compressionTasks, now, filesLeft, maxBatch, localFiles, classifyVars, cloudVars>>

\* analyzeFileFails, were the catch branch to call analyzeFile again
analyzeFileFailsRetries ==
    \E task \in BagToSet(analysisTasks) :
        LET setError(f) == [f EXCEPT !.status = "analyzing",
                                     !.progress = 0,
                                     !.error = {"Analysis failed"},
                                     !.analysis = NullAnalysis]
        IN
        /\ selectedFiles' = mapFile(selectedFiles, task.fileId,
                [f \in entries(selectedFiles) |-> setError(f)])
        /\ UNCHANGED <<pageVars, downloadVars, flowVars, analysisTasks, compressionLevel, compressionTasks, now, filesLeft,
                       maxBatch, localFiles, classifyVars, cloudVars>>

\* lines 524-534: the catch branch of analyzeFile
analyzeFileFails ==
    \E task \in BagToSet(analysisTasks) :
        LET setError(f) == [f EXCEPT !.status = "error",
                                     !.error = {"Analysis failed"},
                                     !.analysis = NullAnalysis]
        IN
        /\ selectedFiles' = mapFile(selectedFiles, task.fileId,
                [f \in entries(selectedFiles) |-> setError(f)])
        /\ analysisTasks' = analysisTasks (-) SetToBag({task})
        /\ UNCHANGED <<pageVars, downloadVars, flowVars, compressionLevel, compressionTasks, now, filesLeft, maxBatch, localFiles, classifyVars, cloudVars>>

\* lines 905-914: the retry button of a file in status error
retryAnalysis ==
    \E i \in DOMAIN selectedFiles :
        LET item == selectedFiles[i] IN
        /\ item.status = "error"
        /\ selectedFiles' = mapFile(selectedFiles, item.id,
                [f \in entries(selectedFiles) |-> setAnalyzing(f)])
        /\ analysisTasks' = analysisTasks (+)
              SetToBag({AnalysisTask(item.id, item.file.name, item.originalSize,
                                     item.file.type)})
        /\ UNCHANGED <<pageVars, downloadVars, flowVars, compressionLevel, compressionTasks, now, filesLeft, maxBatch, localFiles, classifyVars, cloudVars>>

\* lines 538-540, behind the button of lines 925-934
removeFile ==
    \E i \in DOMAIN selectedFiles :
        LET id == selectedFiles[i].id IN
        /\ selectedFiles[i].status \notin {"compressing", "analyzing"}
        /\ selectedFiles' = SelectSeq(selectedFiles, LAMBDA f : f.id # id)
        /\ UNCHANGED <<pageVars, downloadVars, flowVars, compressionLevel, analysisTasks, compressionTasks, now,
                       filesLeft, maxBatch, localFiles, classifyVars, cloudVars>>

\* lines 946-948
setCompressionLevel ==
    \E value \in CompressionLevels :
        /\ value # compressionLevel
        /\ compressionLevel' = value
        /\ UNCHANGED <<pageVars, downloadVars, flowVars, selectedFiles, analysisTasks, compressionTasks, now,
                       filesLeft, maxBatch, localFiles, classifyVars, cloudVars>>

----------------------------------------------------------------------------
(* handleCompression *)

\* reductionFactor is held as a numerator over RfDen, which is a common
\* denominator of every value lines 591-617 compute from a draw n / RandDen
RfDen == 200000 * RandDen

\* the numerator of a literal given in thousandths (0.9 is perMille(900))
perMille(x) == x * 200 * RandDen

sig_lossless == <<"l", "o", "s", "s", "l", "e", "s", "s">>

method_none == <<"n", "o", "n", "e">>

method_lossless_optimized == <<"l", "o", "s", "s", "l", "e", "s", "s", "_", "o", "p", "t", "i", "m", "i", "z", "e", "d">>

method_lossy_high_quality == <<"l", "o", "s", "s", "y", "_", "h", "i", "g", "h", "_", "q", "u", "a", "l", "i", "t", "y">>

method_lossy_balanced == <<"l", "o", "s", "s", "y", "_", "b", "a", "l", "a", "n", "c", "e", "d">>

\* the characters of a recommendedMethod
methodChars(method) ==
    CASE method = "none" -> method_none
      [] method = "lossless_optimized" -> method_lossless_optimized
      [] method = "lossy_high_quality" -> method_lossy_high_quality
      [] method = "lossy_balanced" -> method_lossy_balanced

startsWith(s, prefix) ==
    /\ Len(prefix) <= Len(s)
    /\ \A j \in 1..Len(prefix) : s[j] = prefix[j]

\* line 585: selectedFile.analysis?.recommendedMethod || 'lossless_optimized'
recommendedMethodOf(selectedFile) ==
    IF selectedFile.analysis.kind = "advice"
    THEN selectedFile.analysis.advice.recommendedMethod
    ELSE "lossless_optimized"

\* line 586, in percent: selectedFile.analysis?.estimatedReductionPercent ?? 50
baseReductionEstimate(selectedFile) ==
    IF /\ selectedFile.analysis.kind = "advice"
       /\ selectedFile.analysis.advice.estimatedReductionPercent # undefined
    THEN CHOOSE e \in selectedFile.analysis.advice.estimatedReductionPercent : TRUE
    ELSE 50

\* lines 589-600
losslessReductionFactor(selectedFile, k) ==
    LET est == baseReductionEstimate(selectedFile)
        rf0 == min(perMille(900), max(perMille(100),
                   (100 - est) * (9 * RandDen + 2 * k) * 200))
        rf1 == IF ~startsWith(methodChars(recommendedMethodOf(selectedFile)), sig_lossless)
               THEN min(perMille(950), max(perMille(600), (rf0 * 3) \div 2))
               ELSE rf0
        type == toLowerCase(selectedFile.file.type)
    IN  IF includes(type, sig_text) \/ includes(type, sig_log) \/ includes(type, sig_wav)
        THEN min(rf1, perMille(400))
        ELSE rf1

\* lines 601-610
lossyReductionFactor(selectedFile, level, k) ==
    LET est == baseReductionEstimate(selectedFile)
        levelEffect == IF level = "low" THEN 11 ELSE IF level = "medium" THEN 10 ELSE 8
        rf0 == min(perMille(900), max(perMille(100),
                   (100 - est) * levelEffect * (17 * RandDen + 6 * k) * 10))
    IN  IF /\ startsWith(methodChars(recommendedMethodOf(selectedFile)), sig_lossless)
           /\ selectedFile.originalSize > 1024
        THEN min(rf0, perMille(300))
        ELSE rf0

\* lines 584-618
reductionFactor(selectedFile, level, k) ==
    LET rf == IF level = "lossless_optimized"
              THEN losslessReductionFactor(selectedFile, k)
              ELSE lossyReductionFactor(selectedFile, level, k)
    IN  IF /\ level = "lossless_optimized"
           /\ rf > perMille(500)
           /\ baseReductionEstimate(selectedFile) > 50
        THEN min(perMille(500), (rf * 4) \div 5)
        ELSE IF level # "lossless_optimized" /\ rf > perMille(500)
        THEN min(perMille(500), (rf * 7) \div 10)
        ELSE rf

\* Math.floor(size * num / den) for size < 10^9 and num <= den, by long
\* division in base 1000 so that no intermediate value passes 2^31
floorMulDiv(size, num, den) ==
    LET s2 == size \div 1000000
        s1 == (size \div 1000) % 1000
        s0 == size % 1000
        c2 == s2 * num
        c1 == (c2 % den) * 1000 + s1 * num
        c0 == (c1 % den) * 1000 + s0 * num
    IN  (c2 \div den) * 1000000 + (c1 \div den) * 1000 + (c0 \div den)

\* a size in bytes that need not be whole: bytes + twentieths / 20
Bytes(whole, twentieths) == [bytes |-> whole, twentieths |-> twentieths]

\* line 622, in twentieths of a byte: Math.min(1024, Math.max(50, originalSize * 0.05))
minCompressedSize(originalSize) == min(1024 * 20, max(50 * 20, originalSize))

\* lines 622-623
compressedSizeOf(selectedFile, level, k) ==
    LET floored == floorMulDiv(selectedFile.originalSize,
                               reductionFactor(selectedFile, level, k), RfDen)
        least == minCompressedSize(selectedFile.originalSize)
    IN  IF floored >= 1024 \/ floored * 20 >= least
        THEN Bytes(floored, 0)
        ELSE Bytes(least \div 20, least % 20)

\* lines 627-631: what the text of the Blob is made of
BlobOf(selectedFile, level, size) ==
    [ type |-> "text/plain",
      name |-> selectedFile.file.name,
      level |-> level,
      originalSize |-> selectedFile.originalSize,
      compressedSize |-> size,
      sourcePath |-> IF selectedFile.source = {"cloud"}
                     THEN selectedFile.sourcePath ELSE undefined ]

suffix_optimized == <<"-", "o", "p", "t", "i", "m", "i", "z", "e", "d">>

suffix_high == <<"-", "h", "i", "g", "h">>

suffix_med == <<"-", "m", "e", "d">>

suffix_fast == <<"-", "f", "a", "s", "t">>

\* the index of the last '.' of a name, 0 if it has none
lastDot(name) ==
    IF \E i \in DOMAIN name : name[i] = "."
    THEN CHOOSE i \in DOMAIN name :
            name[i] = "." /\ \A j \in DOMAIN name : name[j] = "." => j <= i
    ELSE 0

\* lines 634-643
compressedFileNameOf(name, level) ==
    LET dot == lastDot(name)
        extension == IF dot > 0 THEN SubSeq(name, dot, Len(name)) ELSE <<>>
        baseName == IF dot > 0 THEN SubSeq(name, 1, dot - 1) ELSE name
        suffix == IF level = "lossless_optimized" THEN suffix_optimized
                  ELSE IF level = "high" THEN suffix_high
                  ELSE IF level = "medium" THEN suffix_med
                  ELSE suffix_fast
    IN  baseName \o suffix \o extension

\* the fields of selectedFile that lines 563-655 read
captured(f) ==
    [ id |-> f.id, file |-> f.file, originalSize |-> f.originalSize,
      analysis |-> f.analysis, source |-> f.source, sourcePath |-> f.sourcePath ]

\* the closure of the callback of line 554 and the i of its loop
CompressionTask(selectedFile, level, i) ==
    [selectedFile |-> captured(selectedFile), compressionLevel |-> level, i |-> i]

\* filesToCompress, were the files that are complete taken as well
filesToCompressAgain ==
    SelectSeq(selectedFiles, LAMBDA f : f.status \in {"pending", "error", "complete"})

\* line 543
filesToCompress == SelectSeq(selectedFiles, LAMBDA f : f.status \in {"pending", "error"})

\* line 563
setCompressing(f) == [f EXCEPT !.status = "compressing", !.progress = 0,
                               !.error = undefined]

RECURSIVE applyAll(_, _, _)
\* the updates of the forEach of line 554, queued in order for each file
applyAll(files, toCompress, k) ==
    IF k > Len(toCompress) THEN files
    ELSE applyAll(mapFile(files, toCompress[k].id,
                [f \in entries(files) |-> setCompressing(f)]), toCompress, k + 1)

\* lines 542-565, behind the button of lines 990-994: every file to compress
\* is set to compressing and its loop stands at its first await
handleCompression ==
    /\ ~isProcessingAny
    /\ Len(filesToCompress) > 0
    /\ selectedFiles' = applyAll(selectedFiles, filesToCompress, 1)
    /\ compressionTasks' = compressionTasks (+)
          bagOf([k \in DOMAIN filesToCompress |->
                    CompressionTask(filesToCompress[k], compressionLevel, 1)])
    /\ UNCHANGED <<pageVars, downloadVars, flowVars, compressionLevel, analysisTasks, now, filesLeft, maxBatch, localFiles, classifyVars, cloudVars>>

\* lines 576-581, an iteration before the last; progress is held in
\* units of 1 / steps percent: Math.min(99, (i / steps) * 100)
compressionStep ==
    \E task \in BagToSet(compressionTasks) :
        LET setProgress(f) == [f EXCEPT !.progress = min(99 * steps, task.i * 100)] IN
        /\ task.i < steps
        /\ selectedFiles' = mapFile(selectedFiles, task.selectedFile.id,
                [f \in entries(selectedFiles) |-> setProgress(f)])
        /\ compressionTasks' = (compressionTasks (-) SetToBag({task})) (+)
              SetToBag({[task EXCEPT !.i = task.i + 1]})
        /\ UNCHANGED <<pageVars, downloadVars, flowVars, compressionLevel, analysisTasks, now, filesLeft, maxBatch, localFiles, classifyVars, cloudVars>>

\* compressionCompletes, were the Blob not stored
compressionCompletesWithoutBlob ==
    \E task \in BagToSet(compressionTasks), k \in RandomDraws :
        LET selectedFile == task.selectedFile
            level == task.compressionLevel
            size == compressedSizeOf(selectedFile, level, k)
            setComplete(f) ==
                [f EXCEPT !.status = "complete",
                          !.progress = 100 * steps,
                          !.compressedSize = {size},
                          !.compressedFileName =
                              {compressedFileNameOf(selectedFile.file.name, level)}]
        IN
        /\ task.i = steps
        /\ selectedFiles' = mapFile(selectedFiles, selectedFile.id,
                [f \in entries(selectedFiles) |-> setComplete(f)])
        /\ compressionTasks' = compressionTasks (-) SetToBag({task})
        /\ UNCHANGED <<pageVars, downloadVars, flowVars, compressionLevel, analysisTasks, now, filesLeft, maxBatch, localFiles, classifyVars, cloudVars>>

\* lines 576-660: the last iteration of the loop and, with no await in
\* between, the result
compressionCompletes ==
    \E task \in BagToSet(compressionTasks), k \in RandomDraws :
        LET selectedFile == task.selectedFile
            level == task.compressionLevel
            size == compressedSizeOf(selectedFile, level, k)
            setComplete(f) ==
                [f EXCEPT !.status = "complete",
                          !.progress = 100 * steps,
                          !.compressedSize = {size},
                          !.compressedBlob = {BlobOf(selectedFile, level, size)},
                          !.compressedFileName =
                              {compressedFileNameOf(selectedFile.file.name, level)}]
        IN
        /\ task.i = steps
        /\ selectedFiles' = mapFile(selectedFiles, selectedFile.id,
                [f \in entries(selectedFiles) |-> setComplete(f)])
        /\ compressionTasks' = compressionTasks (-) SetToBag({task})
        /\ UNCHANGED <<pageVars, downloadVars, flowVars, compressionLevel, analysisTasks, now, filesLeft, maxBatch, localFiles, classifyVars, cloudVars>>

\* lines 662-672: the catch branch of the compression of one file
compressionFails ==
    \E task \in BagToSet(compressionTasks) :
        LET setError(f) == [f EXCEPT !.status = "error",
                                     !.error = {"Compression failed"}]
        IN
        /\ selectedFiles' = mapFile(selectedFiles, task.selectedFile.id,
                [f \in entries(selectedFiles) |-> setError(f)])
        /\ compressionTasks' = compressionTasks (-) SetToBag({task})
        /\ UNCHANGED <<pageVars, downloadVars, flowVars, compressionLevel, analysisTasks, now, filesLeft, maxBatch, localFiles, classifyVars, cloudVars>>

\* lines 676-702, behind the button of lines 896-904, which is shown for a
\* file that is complete
handleDownload ==
    \E i \in DOMAIN selectedFiles :
        LET file == selectedFiles[i] IN
        /\ file.status = "complete"
        /\ download' =
              IF \/ file.compressedBlob = undefined
                 \/ file.compressedFileName = undefined
                 \/ file.status # "complete"
              THEN [kind |-> "error"]
              ELSE [kind |-> "started", id |-> file.id,
                    fileName |-> file.compressedFileName]
        /\ UNCHANGED <<pageVars, queueVars, flowVars, classifyVars, cloudVars>>

----------------------------------------------------------------------------
(* The cloud panel: CompressionSuggestions.handleAnalyzeClick *)

\* compression-suggestions.tsx: an AnalysisState is 'idle', 'loading', 'error'
\* or an advice; a path with no entry in analysisResults shows as 'idle'
AnalysisIdle == [kind |-> "idle"]

AnalysisLoading == [kind |-> "loading"]

AnalysisError == [kind |-> "error"]

CloudAnalysisTask(k, item) ==
    [k |-> k, filePath |-> item.path, fileName |-> item.name,
     fileSize |-> item.size, fileType |-> item.type]

\* lines 73-83, behind the Analyze, Retry Analysis and Re-analyze buttons of
\* lines 372-427, none of which shows while the analysis of the row is loading
handleAnalyzeClick ==
    \E k \in DOMAIN suggestions :
        /\ isLoggedIn
        /\ analysisResults[k] # AnalysisLoading
        /\ analysisResults' = [analysisResults EXCEPT ![k] = AnalysisLoading]
        /\ cloudAnalysisTasks' = cloudAnalysisTasks (+)
              SetToBag({CloudAnalysisTask(k, suggestions[k])})
        /\ UNCHANGED <<pageVars, downloadVars, flowVars, isLoggedIn, suggestions, queueVars, classifyVars>>

\* lines 83-155: handleAnalyzeClick after its await, when nothing throws
handleAnalyzeClickSucceeds ==
    \E task \in BagToSet(cloudAnalysisTasks), n, m \in RandomDraws :
        /\ analysisResults' = [analysisResults EXCEPT ![task.k] =
              SomeAnalysis(result(task.fileSize, task.fileType, n, m))]
        /\ cloudAnalysisTasks' = cloudAnalysisTasks (-) SetToBag({task})
        /\ UNCHANGED <<pageVars, downloadVars, flowVars, isLoggedIn, suggestions, queueVars, classifyVars>>

\* lines 156-164: the catch branch of handleAnalyzeClick
handleAnalyzeClickFails ==
    \E task \in BagToSet(cloudAnalysisTasks) :
        /\ analysisResults' = [analysisResults EXCEPT ![task.k] = AnalysisError]
        /\ cloudAnalysisTasks' = cloudAnalysisTasks (-) SetToBag({task})
        /\ UNCHANGED <<pageVars, downloadVars, flowVars, isLoggedIn, suggestions, queueVars, classifyVars>>

----------------------------------------------------------------------------
(* The page: Home, its login and its suggestions *)

\* page.tsx line 44: isLoggedIn in the first render. handleLogin is memoized
\* on [toast] (line 56), so it stays the callback of the first render, and
\* the fetchSuggestions it calls is the one of that render
isLoggedInAtMount == FALSE

\* a call of fetchSuggestions holds the isLoggedIn of the render that made it
FetchTask(loggedIn) == [isLoggedIn |-> loggedIn]

\* page.tsx lines 71-83: fetchSuggestions of a render in which isLoggedIn
\* was loggedIn, up to its await
fetchSuggestions(loggedIn) ==
    IF ~loggedIn
    THEN /\ isLoadingSuggestions' = FALSE
         /\ suggestions' = <<>>
         /\ UNCHANGED <<fetchError, fetchTasks>>
    ELSE /\ isLoadingSuggestions' = TRUE
         /\ fetchError' = {}
         /\ fetchTasks' = fetchTasks (+) SetToBag({FetchTask(loggedIn)})
         /\ UNCHANGED suggestions

\* page.tsx lines 48-56, behind the menu of main-layout.tsx lines 185-198,
\* which shows while the user is logged out
handleLogin ==
    \E provider \in {"google", "apple"} :
        /\ ~isLoggedIn
        /\ isLoggedIn' = TRUE
        /\ userName' = {IF provider = "google" THEN "Demo User" ELSE "Apple User"}
        /\ fetchSuggestions(isLoggedInAtMount)
        /\ UNCHANGED <<analysisResults, cloudAnalysisTasks, queueVars, classifyVars,
                       flowVars, downloadVars>>

\* page.tsx lines 58-67, behind the menu item of main-layout.tsx line 179
handleLogout ==
    /\ isLoggedIn
    /\ isLoggedIn' = FALSE
    /\ userName' = {}
    /\ suggestions' = <<>>
    /\ isLoadingSuggestions' = FALSE
    /\ fetchError' = {}
    /\ UNCHANGED <<fetchTasks, analysisResults, cloudAnalysisTasks, queueVars,
                   classifyVars, flowVars, downloadVars>>

\* page.tsx lines 227-240: the Refresh Suggestions button, which calls the
\* fetchSuggestions of the render it shows in
refreshSuggestions ==
    /\ isLoggedIn
    /\ ~isLoadingSuggestions
    /\ BagCardinality(fetchTasks) < MaxFetches
    /\ fetchSuggestions(isLoggedIn)
    /\ UNCHANGED <<isLoggedIn, userName, analysisResults, cloudAnalysisTasks,
                   queueVars, classifyVars, flowVars, downloadVars>>

\* fetchSuggestionsResolves, were there no finally block
fetchSuggestionsResolvesNoFinally ==
    \E task \in BagToSet(fetchTasks) :
        /\ suggestions' = IF ~task.isLoggedIn THEN <<>> ELSE dummySuggestions
        /\ fetchTasks' = fetchTasks (-) SetToBag({task})
        /\ UNCHANGED <<isLoadingSuggestions, fetchError, isLoggedIn, userName,
                       analysisResults, cloudAnalysisTasks, queueVars, classifyVars,
                       flowVars, downloadVars>>

\* page.tsx lines 83-114: fetchSuggestions after its await, when nothing
\* but its own throw of line 91 throws
fetchSuggestionsResolves ==
    \E task \in BagToSet(fetchTasks) :
        /\ suggestions' = IF ~task.isLoggedIn THEN <<>> ELSE dummySuggestions
        /\ isLoadingSuggestions' = FALSE
        /\ fetchTasks' = fetchTasks (-) SetToBag({task})
        /\ UNCHANGED <<fetchError, isLoggedIn, userName, analysisResults,
                       cloudAnalysisTasks, queueVars, classifyVars, flowVars,
                       downloadVars>>

\* page.tsx lines 95-114: the catch branch, when the body of the try throws
fetchSuggestionsFails ==
    \E task \in BagToSet(fetchTasks) :
        /\ fetchError' = IF task.isLoggedIn THEN {"Failed to fetch suggestions"}
                         ELSE fetchError
        /\ suggestions' = <<>>
        /\ isLoadingSuggestions' = FALSE
        /\ fetchTasks' = fetchTasks (-) SetToBag({task})
        /\ UNCHANGED <<isLoggedIn, userName, analysisResults, cloudAnalysisTasks,
                       queueVars, classifyVars, flowVars, downloadVars>>

----------------------------------------------------------------------------
(* The analysis that asks the model: analyzeCompressionQuality and getFile *)

\* file-system.ts lines 4-21
FileInfo(name, size, type, path) ==
    [name |-> name, size |-> size, type |-> type, path |-> path]

name_Annual_Report_2023_pdf == <<"A", "n", "n", "u", "a", "l", " ", "R", "e", "p", "o", "r", "t", " ", "2", "0", "2", "3", ".", "p", "d", "f">>

path_Annual_Report_2023_pdf == <<"/", "c", "l", "o", "u", "d", "/", "d", "o", "c", "u", "m", "e", "n", "t", "s", "/", "A", "n", "n", "u", "a", "l", " ", "R", "e", "p", "o", "r", "t", " ", "2", "0", "2", "3", ".", "p", "d", "f">>

name_project_backup_zip == <<"p", "r", "o", "j", "e", "c", "t", "_", "b", "a", "c", "k", "u", "p", ".", "z", "i", "p">>

path_project_backup_zip == <<"/", "l", "o", "c", "a", "l", "/", "b", "a", "c", "k", "u", "p", "s", "/", "p", "r", "o", "j", "e", "c", "t", "_", "b", "a", "c", "k", "u", "p", ".", "z", "i", "p">>

name_IMG_0012_JPG == <<"I", "M", "G", "_", "0", "0", "1", "2", ".", "J", "P", "G">>

path_IMG_0012_JPG == <<"/", "c", "l", "o", "u", "d", "/", "p", "h", "o", "t", "o", "s", "/", "I", "M", "G", "_", "0", "0", "1", "2", ".", "J", "P", "G">>

name_Family_Vacation_mov == <<"F", "a", "m", "i", "l", "y", " ", "V", "a", "c", "a", "t", "i", "o", "n", ".", "m", "o", "v">>

path_Family_Vacation_mov == <<"/", "c", "l", "o", "u", "d", "/", "v", "i", "d", "e", "o", "s", "/", "F", "a", "m", "i", "l", "y", " ", "V", "a", "c", "a", "t", "i", "o", "n", ".", "m", "o", "v">>

name_Presentation_Draft_pptx == <<"P", "r", "e", "s", "e", "n", "t", "a", "t", "i", "o", "n", "_", "D", "r", "a", "f", "t", ".", "p", "p", "t", "x">>

path_Presentation_Draft_pptx == <<"/", "c", "l", "o", "u", "d", "/", "w", "o", "r", "k", "/", "P", "r", "e", "s", "e", "n", "t", "a", "t", "i", "o", "n", "s", "/", "P", "r", "e", "s", "e", "n", "t", "a", "t", "i", "o", "n", "_", "D", "r", "a", "f", "t", ".", "p", "p", "t", "x">>

name_logo_final_v3_png == <<"l", "o", "g", "o", "_", "f", "i", "n", "a", "l", "_", "v", "3", ".", "p", "n", "g">>

path_logo_final_v3_png == <<"/", "l", "o", "c", "a", "l", "/", "d", "e", "s", "i", "g", "n", "/", "l", "o", "g", "o", "_", "f", "i", "n", "a", "l", "_", "v", "3", ".", "p", "n", "g">>

name_podcast_episode_raw_wav == <<"p", "o", "d", "c", "a", "s", "t", "_", "e", "p", "i", "s", "o", "d", "e", "_", "r", "a", "w", ".", "w", "a", "v">>

path_podcast_episode_raw_wav == <<"/", "l", "o", "c", "a", "l", "/", "a", "u", "d", "i", "o", "/", "p", "o", "d", "c", "a", "s", "t", "_", "e", "p", "i", "s", "o", "d", "e", "_", "r", "a", "w", ".", "w", "a", "v">>

name_unknown_file == <<"u", "n", "k", "n", "o", "w", "n", "_", "f", "i", "l", "e">>

\* a path that ends in a slash
path_cloud_photos == <<"/", "c", "l", "o", "u", "d", "/", "p", "h", "o", "t", "o", "s", "/">>

\* file-system.ts lines 37-80: the list that getFiles resolves to; the size of
\* the fourth entry, 1.2 * 1024 * 1024 * 1024, is kept in whole bytes
getFiles ==
    << FileInfo(name_Annual_Report_2023_pdf, 12 * MB, "document/pdf", path_Annual_Report_2023_pdf),
       FileInfo(name_project_backup_zip, 250 * MB, "archive/zip", path_project_backup_zip),
       FileInfo(name_IMG_0012_JPG, 6 * MB, "image/jpeg", path_IMG_0012_JPG),
       FileInfo(name_Family_Vacation_mov, 1288490188, "video/quicktime", path_Family_Vacation_mov),
       FileInfo(name_Presentation_Draft_pptx, 35 * MB, "document/presentation", path_Presentation_Draft_pptx),
       FileInfo(name_logo_final_v3_png, 1536 * KB, "image/png", path_logo_final_v3_png),
       FileInfo(name_podcast_episode_raw_wav, 300 * MB, "audio/wav", path_podcast_episode_raw_wav) >>

\* Array.prototype.find with f => f.path === path
find(list, path) ==
    IF \E i \in DOMAIN list : list[i].path = path
    THEN list[CHOOSE i \in DOMAIN list :
                 list[i].path = path /\ \A j \in 1..(i - 1) : list[j].path # path]
    ELSE jsUndefined

\* path.split('/').pop(): the characters after the last slash
lastSegment(path) ==
    IF \E i \in DOMAIN path : path[i] = "/"
    THEN LET slash == CHOOSE i \in DOMAIN path :
                         path[i] = "/" /\ \A j \in DOMAIN path : path[j] = "/" => j <= i
         IN  SubSeq(path, slash + 1, Len(path))
    ELSE path

\* file-system.ts lines 90-114: what getFile resolves to
getFile(path) ==
    LET mockFiles == getFiles
        foundFile == find(mockFiles, path)
    IN  IF foundFile # jsUndefined
        THEN foundFile
        ELSE FileInfo(IF lastSegment(path) # <<>> THEN lastSegment(path)
                      ELSE name_unknown_file,
                      10 * MB, "unknown", path)

\* the paths of the list of getFiles
knownPaths == {getFiles[i].path : i \in DOMAIN getFiles}

\* the paths the flow is called with: the known ones, the path of a cloud
\* suggestion, a folder and the empty string
FilePaths == knownPaths \union {path_IMG_1024_heic, path_cloud_photos, <<>>}

\* lines 28-29: the values of z.enum
RecommendedMethods ==
    {"lossless_optimized", "lossy_high_quality", "lossy_balanced", "none"}

\* the objects the model may answer with, fields that are left out being
\* undefined; the prompt of lines 72 and 76-80 asks for null where there is
\* no estimate
Responses ==
    [ shouldCompress : {jsBoolean(TRUE), jsBoolean(FALSE)},
      recommendedMethod : {jsString(m) : m \in RecommendedMethods \union {"gzip"}},
      estimatedReductionPercent :
          {jsUndefined, jsNull} \union {jsNumber(n) : n \in {-1, 0, 50, 100, 150}},
      qualityImpactDescription : {jsString("No quality loss"), jsUndefined} ]

\* lines 23-38: the value parses into the schema
AnalyzeCompressionQualityOutputSchema(v) ==
    /\ v.shouldCompress.kind = "boolean"
    /\ v.recommendedMethod.kind = "string"
    /\ v.recommendedMethod.value \in RecommendedMethods
    /\ v.estimatedReductionPercent.kind \in {"number", "undefined"}
    /\ v.qualityImpactDescription.kind = "string"

\* the flow has thrown
failed(error) == [flow EXCEPT !.pc = "failed", !.error = error]

\* lines 44-49 and 104-106: the call, up to the await of getFile
analyzeCompressionQuality ==
    \E filePath \in FilePaths :
        /\ flow.pc \in {"idle", "returned", "failed"}
        /\ flow' = [pc |-> "getFile", filePath |-> filePath, fileInfo |-> jsNull,
                    output |-> jsUndefined, error |-> "none"]
        /\ UNCHANGED <<pageVars, downloadVars, classifyVars, queueVars, cloudVars>>

\* lines 106-117: getFile resolves, up to the await of the prompt
getFileResolves ==
    /\ flow.pc = "getFile"
    /\ LET fileInfo == getFile(flow.filePath)
       IN  flow' = IF fileInfo = jsNull
                   THEN failed("File not found at path")
                   ELSE [flow EXCEPT !.pc = "prompt", !.fileInfo = fileInfo]
    /\ UNCHANGED <<pageVars, downloadVars, classifyVars, queueVars, cloudVars>>

\* lines 115-126: the prompt resolves; the flow returns its output, which
\* defineFlow holds against outputSchema (line 102)
promptResolves ==
    \E output \in Responses \union {jsNull} :
        /\ flow.pc = "prompt"
        /\ flow' = IF output = jsNull
                   THEN failed("Failed to get compression analysis from AI.")
                   ELSE IF ~AnalyzeCompressionQualityOutputSchema(output)
                        THEN failed("Schema validation failed")
                        ELSE [flow EXCEPT !.pc = "returned", !.output = output]
        /\ UNCHANGED <<pageVars, downloadVars, classifyVars, queueVars, cloudVars>>

----------------------------------------------------------------------------
(* The queue as the code runs it: nothing in a try block throws *)

\* the page after login and a refresh of the suggestions
CloudLoaded ==
    /\ isLoggedIn = TRUE
    /\ suggestions = dummySuggestions
    /\ analysisResults = [k \in DOMAIN dummySuggestions |-> AnalysisIdle]
    /\ cloudAnalysisTasks = EmptyBag
    /\ isLoadingSuggestions = FALSE
    /\ fetchError = {}
    /\ userName = {"Demo User"}
    /\ fetchTasks = EmptyBag
    /\ FlowIdle

Init == ClassifyIdle /\ QueueInit(MaxFiles, 1, LocalFiles) /\ CloudLoaded

Next ==
    \/ addFiles
    \/ addFileToLocalQueue
    \/ analyzeFileSucceeds
    \/ removeFile
    \/ setCompressionLevel
    \/ handleCompression
    \/ compressionStep
    \/ compressionCompletes

Spec == Init /\ [][Next]_vars

\* the timer of line 438 fires: an analysis that waits is eventually resumed
FairSpec == Spec /\ WF_vars(analyzeFileSucceeds)

----------------------------------------------------------------------------
(* The queue when the user hands over several files at once *)

\* the queue before the user drops up to MaxFiles files in one list
InitBatch == ClassifyIdle /\ QueueInit(MaxFiles, MaxFiles, LocalFiles) /\ CloudLoaded

\* the level stays the one that is selected when the component mounts
NextBatch ==
    \/ addFiles
    \/ addFileToLocalQueue
    \/ analyzeFileSucceeds
    \/ removeFile
    \/ handleCompression
    \/ compressionStep
    \/ compressionCompletes

SpecBatch == InitBatch /\ [][NextBatch]_vars

\* the queue before the user adds MaxFiles + 1 files, up to MaxFiles at once
InitAnalysis ==
    ClassifyIdle /\ QueueInit(MaxFiles + 1, MaxFiles, BatchFiles) /\ CloudLoaded

\* the user adds, retries and removes files and does not start the
\* optimization; the body of the try block of analyzeFile can throw
NextAnalysis ==
    \/ addFiles
    \/ addFileToLocalQueue
    \/ analyzeFileSucceeds
    \/ analyzeFileFails
    \/ retryAnalysis
    \/ removeFile

SpecAnalysis == InitAnalysis /\ [][NextAnalysis]_vars

----------------------------------------------------------------------------
(* The queue and the cloud panel when the body of a try block can throw *)

\* the page after login, with the queue and the cloud panel
InitFault == ClassifyIdle /\ QueueInit(MaxFaultFiles, 1, LocalFiles) /\ CloudLoaded

NextFault ==
    \/ Next
    \/ analyzeFileFails
    \/ retryAnalysis
    \/ compressionFails
    \/ handleAnalyzeClick
    \/ handleAnalyzeClickSucceeds
    \/ handleAnalyzeClickFails

SpecFault == InitFault /\ [][NextFault]_vars

----------------------------------------------------------------------------
(* Lists of files, and downloads of the files that are complete *)

NextDownload ==
    \/ NextBatch
    \/ handleDownload

SpecDownload == InitBatch /\ [][NextDownload]_vars

----------------------------------------------------------------------------
(* One text file or one cloud file, at any level *)

InitText == ClassifyIdle /\ QueueInit(MaxTextFiles, 1, TextFiles) /\ CloudLoaded

SpecText == InitText /\ [][Next]_vars

----------------------------------------------------------------------------
(* The page from its first render: login, logout, refresh and the panel *)

PageMounted ==
    /\ isLoggedIn = FALSE
    /\ suggestions = <<>>
    /\ analysisResults = [k \in DOMAIN dummySuggestions |-> AnalysisIdle]
    /\ cloudAnalysisTasks = EmptyBag
    /\ isLoadingSuggestions = FALSE
    /\ fetchError = {}
    /\ userName = {}
    /\ fetchTasks = EmptyBag
    /\ FlowIdle

InitPage == ClassifyIdle /\ QueueInit(0, 0, {}) /\ PageMounted

NextPage ==
    \/ handleLogin
    \/ handleLogout
    \/ refreshSuggestions
    \/ fetchSuggestionsResolves
    \/ handleAnalyzeClick
    \/ handleAnalyzeClickSucceeds

SpecPage == InitPage /\ [][NextPage]_vars

\* the timer of line 83 fires
FairSpecPage == SpecPage /\ WF_vars(fetchSuggestionsResolves)

\* the same when the body of a try block can throw
NextPageFault ==
    \/ NextPage
    \/ fetchSuggestionsFails
    \/ handleAnalyzeClickFails

SpecPageFault == InitPage /\ [][NextPageFault]_vars

\* the timer of line 83 fires, and the call goes on to its end or throws
FairSpecPageFault ==
    SpecPageFault /\ WF_vars(fetchSuggestionsResolves \/ fetchSuggestionsFails)

----------------------------------------------------------------------------
(* The analysis flow on its own, called again and again *)

InitFlow == ClassifyIdle /\ QueueInit(0, 0, {}) /\ CloudIdle /\ FlowIdle

NextFlow ==
    \/ analyzeCompressionQuality
    \/ getFileResolves
    \/ promptResolves

SpecFlow == InitFlow /\ [][NextFlow]_vars

----------------------------------------------------------------------------
(* The queue with analyses that can fail, and compressions that do not *)

InitStart == ClassifyIdle /\ QueueInit(MaxFiles, 1, LocalFiles) /\ CloudLoaded

NextStart ==
    \/ NextBatch
    \/ analyzeFileFails
    \/ retryAnalysis

SpecStart == InitStart /\ [][NextStart]_vars

----------------------------------------------------------------------------
(* Properties of the classification *)

CompressedSignals ==
    { sig_jpeg, sig_jpg, sig_mp3, sig_aac, sig_mp4, sig_mov, sig_zip, sig_7z, sig_gz, sig_heic }

ImageSignals == { sig_png, sig_gif, sig_tiff, sig_bmp }

AudioSignals == { sig_wav, sig_aiff }

TextSignals ==
    { sig_text, sig_csv, sig_log, sig_html, sig_css, sig_js, sig_json, sig_xml }

\* the type string t contains one of the signals, whatever the letter case
HasSignal(t, signals) ==
    LET lower == toLowerCase(t) IN \E sig \in signals : includes(lower, sig)

LocalRun == run.classifier = "local"

CloudRun == run.classifier = "cloud"

\* C1: the advice of the local-queue classifier has recommendedMethod =
\* "none" if and only if shouldCompress = false.
C1_NoneIffNotShouldCompress ==
    LocalRun =>
        (run.advice.recommendedMethod = "none" <=> run.advice.shouldCompress = FALSE)

C1_Witness ==
    /\ LocalRun
    /\ run.advice.recommendedMethod = "none"
    /\ run.advice.shouldCompress = FALSE

\* C2: the advice of the local-queue classifier has estimatedReductionPercent
\* defined if and only if recommendedMethod # "none", and a defined value
\* lies in 0..100.
C2_EstimateIffMethod ==
    LocalRun =>
        /\ (run.advice.estimatedReductionPercent # undefined
              <=> run.advice.recommendedMethod # "none")
        /\ \A p \in run.advice.estimatedReductionPercent : p >= 0 /\ p <= 100

C2_Witness ==
    /\ LocalRun
    /\ run.advice.recommendedMethod # "none"
    /\ \E p \in run.advice.estimatedReductionPercent : p > 0

\* C3: when the local-queue classifier returns a method other than "none",
\* estimatedReductionPercent is defined and lies in the band of the first
\* row whose signal the type contains: 5..25 (already compressed), 20..60
\* (lossless image), 40..70 (lossless audio), 60..90 (text), 30..70 (default).
C3_EstimateWithinBand ==
    LET band == IF HasSignal(fileType, CompressedSignals) THEN 5..25
                ELSE IF HasSignal(fileType, ImageSignals) THEN 20..60
                ELSE IF HasSignal(fileType, AudioSignals) THEN 40..70
                ELSE IF HasSignal(fileType, TextSignals) THEN 60..90
                ELSE 30..70
    IN  (LocalRun /\ run.advice.recommendedMethod # "none") =>
            /\ run.advice.estimatedReductionPercent # undefined
            /\ run.advice.estimatedReductionPercent \subseteq band

C3_Witness ==
    /\ LocalRun
    /\ run.rnd = RandDen - 1
    /\ HasSignal(fileType, TextSignals)
    /\ ~HasSignal(fileType, CompressedSignals \cup ImageSignals \cup AudioSignals)
    /\ \E p \in run.advice.estimatedReductionPercent : p > 60 /\ p <= 90

\* C4: for a type containing an already-compressed signal the local-queue
\* classifier returns shouldCompress = false, "none" and no estimate when
\* size < 200*1024, and otherwise shouldCompress = true with
\* "lossy_high_quality" when size > 10*1024*1024 and "lossless_optimized"
\* when 200*1024 <= size <= 10*1024*1024.
C4_AlreadyCompressedRow ==
    (LocalRun /\ HasSignal(fileType, CompressedSignals)) =>
        /\ fileSize < 200 * 1024 =>
              /\ run.advice.shouldCompress = FALSE
              /\ run.advice.recommendedMethod = "none"
              /\ run.advice.estimatedReductionPercent = undefined
        /\ fileSize > 10 * 1024 * 1024 =>
              /\ run.advice.shouldCompress = TRUE
              /\ run.advice.recommendedMethod = "lossy_high_quality"
        /\ (fileSize >= 200 * 1024 /\ fileSize <= 10 * 1024 * 1024) =>
              /\ run.advice.shouldCompress = TRUE
              /\ run.advice.recommendedMethod = "lossless_optimized"

C4_Witness ==
    /\ LocalRun
    /\ HasSignal(fileType, CompressedSignals)
    /\ fileSize = 10 * 1024 * 1024
    /\ run.advice.recommendedMethod = "lossless_optimized"

\* C5: for a type that contains no signal of the table, the empty string
\* included, the local-queue classifier returns shouldCompress = true with
\* "lossy_balanced" when size > 20*1024*1024 and "lossless_optimized"
\* otherwise; application/octet-stream of 25MB gives "lossy_balanced".
C5_DefaultRow ==
    LET unmatched == ~HasSignal(fileType, CompressedSignals \cup ImageSignals
                                            \cup AudioSignals \cup TextSignals)
    IN  /\ (LocalRun /\ unmatched) =>
              /\ run.advice.shouldCompress = TRUE
              /\ run.advice.recommendedMethod =
                    IF fileSize > 20 * 1024 * 1024 THEN "lossy_balanced"
                                                   ELSE "lossless_optimized"
        /\ (LocalRun /\ fileType \in {mime_empty, mime_application_octet_stream}) =>
              /\ unmatched
              /\ fileSize = 25 * 1024 * 1024 =>
                    run.advice.recommendedMethod = "lossy_balanced"

C5_Witness ==
    /\ LocalRun
    /\ fileType = mime_empty
    /\ fileSize = 20 * 1024 * 1024
    /\ run.advice.recommendedMethod = "lossless_optimized"

\* C6: for a type that contains a lossless-image, lossless-audio or text
\* signal and no already-compressed signal, the local-queue classifier
\* returns shouldCompress = true and "lossless_optimized" whatever the size.
C6_LosslessRows ==
    ( /\ LocalRun
      /\ HasSignal(fileType, ImageSignals \cup AudioSignals \cup TextSignals)
      /\ ~HasSignal(fileType, CompressedSignals) ) =>
        /\ run.advice.shouldCompress = TRUE
        /\ run.advice.recommendedMethod = "lossless_optimized"

C6_Witness ==
    /\ LocalRun
    /\ fileType = mime_audio_aiff
    /\ fileSize = 300 * 1024 * 1024
    /\ run.advice.recommendedMethod = "lossless_optimized"

\* C7: the table of the local-queue classifier is evaluated top to bottom
\* and the first matching row wins: the advice is the one of the earliest
\* row, in the order already compressed, lossless image, lossless audio,
\* text, default, whose signal the type contains (each row has its own
\* qualityImpactDescription and band).
C7_FirstMatchWins ==
    LET d == run.advice.qualityImpactDescription
        e == run.advice.estimatedReductionPercent
        c == HasSignal(fileType, CompressedSignals)
        i == HasSignal(fileType, ImageSignals)
        a == HasSignal(fileType, AudioSignals)
        t == HasSignal(fileType, TextSignals)
    IN  LocalRun =>
          /\ c => /\ d \in { "Potential minor reduction via re-optimization.",
                             "Likely already efficiently compressed." }
                  /\ e \subseteq 5..25
          /\ (~c /\ i) => /\ d = "Good candidate for lossless optimization."
                          /\ e # undefined /\ e \subseteq 20..60
          /\ (~c /\ ~i /\ a) =>
                /\ d = "Significant savings via lossless audio codec (e.g., FLAC)."
                /\ e # undefined /\ e \subseteq 40..70
          /\ (~c /\ ~i /\ ~a /\ t) =>
                /\ d = "Highly compressible with no quality loss."
                /\ e # undefined /\ e \subseteq 60..90
          /\ (~c /\ ~i /\ ~a /\ ~t) =>
                d = "Compression viable, potential quality trade-off depending on content."

C7_Witness ==
    /\ LocalRun
    /\ fileType = mime_text_zip
    /\ fileSize = 25 * 1024 * 1024
    /\ run.advice.qualityImpactDescription = "Potential minor reduction via re-optimization."

\* two advices agree on everything but estimatedReductionPercent
SameDecision(a, b) ==
    /\ a.shouldCompress = b.shouldCompress
    /\ a.recommendedMethod = b.recommendedMethod
    /\ a.qualityImpactDescription = b.qualityImpactDescription

----------------------------------------------------------------------------
(* Properties of the local queue *)

\* the values of Date.now() that an id can carry
AddTimes == 0 .. MaxFiles

\* the ids that an entry of the queue can have
FileIds ==
    { <<file.name, file.size, time>> :
        file \in LocalFiles \cup BatchFiles \cup entries(dummySuggestions), time \in AddTimes }

\* the ids of the entries of the queue
idsOf(files) == { files[i].id : i \in DOMAIN files }

\* the ids of the queue that carry the time; when the user adds one file at a
\* time there is at most one
StampedAt(files, time) == { t \in idsOf(files) : t[3] = time }

\* the entries of the queue with the id t
addedAt(files, t) == { i \in DOMAIN files : files[i].id = t }

isAnalyzing(files, t) == \E i \in addedAt(files, t) : files[i].status = "analyzing"

isPendingWithAdvice(files, t) ==
    \E i \in addedAt(files, t) :
        /\ files[i].status = "pending"
        /\ files[i].analysis.kind = "advice"

\* C9 (safety half): a file that leaves status 'analyzing' leaves it to
\* 'pending' with an advice attached, never to 'error' and never by
\* disappearing from the queue.
C9_LeavesToPendingWithAdvice ==
    \A t \in idsOf(selectedFiles) :
        isAnalyzing(selectedFiles, t) /\ ~isAnalyzing(selectedFiles', t)
            => isPendingWithAdvice(selectedFiles', t)

\* C9: classification always completes and never fails: every file that
\* enters status 'analyzing' eventually is 'pending' with an advice attached,
\* and every step that takes a file out of 'analyzing' takes it there.
C9_AnalysisCompletes ==
    /\ [][C9_LeavesToPendingWithAdvice]_vars
    /\ \A time \in 0 .. (MaxFiles - 1) :
          (\E t \in StampedAt(selectedFiles, time) : isAnalyzing(selectedFiles, t))
             ~> (\E t \in StampedAt(selectedFiles, time) :
                    isPendingWithAdvice(selectedFiles, t))

\* both files of the queue have been analyzed, one with the advice 'none'
\* and one with an estimate
C9_Witness ==
    /\ Len(selectedFiles) = 2
    /\ analysisTasks = EmptyBag
    /\ \A i \in DOMAIN selectedFiles :
          isPendingWithAdvice(selectedFiles, selectedFiles[i].id)
    /\ \E i \in DOMAIN selectedFiles :
          selectedFiles[i].analysis.advice.recommendedMethod = "none"
    /\ \E i \in DOMAIN selectedFiles :
          selectedFiles[i].analysis.advice.estimatedReductionPercent # undefined

\* the advice that the entry added at time t carries, if it carries one
adviceOf(files, t) ==
    { files[i].analysis.advice : i \in { j \in addedAt(files, t) :
                                            files[j].analysis.kind = "advice" } }

\* a step keeps the advice of every file of the queue, unless it is the
\* success of a new analysis of the file or the removal of the file
LocalAdvicePreserved ==
    \A t \in FileIds :
        adviceOf(selectedFiles, t) # {} /\ addedAt(selectedFiles', t) # {}
            => \/ adviceOf(selectedFiles', t) = adviceOf(selectedFiles, t)
               \/ /\ isAnalyzing(selectedFiles, t)
                  /\ isPendingWithAdvice(selectedFiles', t)

\* a step keeps the advice of every row of the cloud panel, unless it is the
\* success of a new analysis of the row
CloudAdvicePreserved ==
    \A k \in DOMAIN analysisResults :
        analysisResults[k].kind = "advice"
            => \/ analysisResults'[k] = analysisResults[k]
               \/ /\ analysisResults'[k].kind = "advice"
                  /\ \E task \in BagToSet(cloudAnalysisTasks) : task.k = k

\* C10: the advice of a file's previous successful analysis stays attached
\* to the file when a later analysis of it fails, and while it is loading,
\* until a new analysis succeeds, in the local queue and in the cloud panel.
C10_PreviousAdvicePreserved ==
    [][LocalAdvicePreserved /\ CloudAdvicePreserved]_vars

----------------------------------------------------------------------------
(* Failed analyses and their retry *)

\* the number of calls of analyzeFile in flight for the id t; the calls for
\* one id all carry the same arguments
analysesInFlight(tasks, t) ==
    LET calls == { task \in BagToSet(tasks) : task.fileId = t } IN
    IF calls = {} THEN 0 ELSE CopiesIn(CHOOSE task \in calls : TRUE, tasks)

\* the number of calls of handleAnalyzeClick in flight for row k
cloudAnalysesInFlight(tasks, k) ==
    LET calls == { task \in BagToSet(tasks) : task.k = k } IN
    IF calls = {} THEN 0 ELSE CopiesIn(CHOOSE task \in calls : TRUE, tasks)

hasStatus(files, t, st) == \E i \in addedAt(files, t) : files[i].status = st

hasFailedAnalysis(files, t) ==
    \E i \in addedAt(files, t) : files[i].analysis.kind = "null"

\* a step that ends an analysis of a file in failure leaves the file in
\* status 'error' with no analysis of it in flight, and a step that starts an
\* analysis of a file is the user adding the file or using its retry button
LocalNoAutomaticRetry ==
    \A t \in FileIds :
        /\ hasFailedAnalysis(selectedFiles', t) /\ ~hasFailedAnalysis(selectedFiles, t)
              => /\ hasStatus(selectedFiles', t, "error")
                 /\ analysesInFlight(analysisTasks', t) = 0
        /\ hasStatus(selectedFiles', t, "error")
              => analysesInFlight(analysisTasks', t) = 0
        /\ analysesInFlight(analysisTasks', t) > analysesInFlight(analysisTasks, t)
              => addFiles \/ addFileToLocalQueue \/ retryAnalysis

\* the same for the rows of the cloud panel
CloudNoAutomaticRetry ==
    \A k \in DOMAIN analysisResults :
        /\ analysisResults'[k] = AnalysisError
              => cloudAnalysesInFlight(cloudAnalysisTasks', k) = 0
        /\ cloudAnalysesInFlight(cloudAnalysisTasks', k)
                > cloudAnalysesInFlight(cloudAnalysisTasks, k)
              => handleAnalyzeClick

\* C11: a failed analysis is reported as a per-file 'error' state and is never
\* retried automatically: after the failure no analysis of the file is in
\* flight, and a new one starts only with the user's retry action on the file,
\* in the local queue and in the cloud panel.
C11_NoAutomaticRetry ==
    [][LocalNoAutomaticRetry /\ CloudNoAutomaticRetry]_vars

\* a file of the queue and a row of the panel both stand in 'error' after a
\* failed analysis
C11_Witness ==
    /\ \E i \in DOMAIN selectedFiles :
          /\ selectedFiles[i].status = "error"
          /\ selectedFiles[i].error = {"Analysis failed"}
          /\ selectedFiles[i].analysis = NullAnalysis
    /\ analysisTasks = EmptyBag
    /\ \E k \in DOMAIN analysisResults : analysisResults[k] = AnalysisError
    /\ cloudAnalysisTasks = EmptyBag

----------------------------------------------------------------------------
(* Removal while a result is still to come *)

\* the number of compressions of the id t that stand at an await
compressionsInFlight(tasks, t) ==
    Cardinality({ task \in BagToSet(tasks) : task.selectedFile.id = t })

\* the compressions of the id t that stand at an await, each with the number
\* of its copies
compressionsOf(tasks, t) ==
    [task \in {x \in BagToSet(tasks) : x.selectedFile.id = t} |-> CopiesIn(task, tasks)]

\* the id t was given to a file that is no longer in the queue
isRemoved(files, t) == t[3] < now /\ addedAt(files, t) = {}

\* the step ends or advances an analysis or a compression of the id t
resultArrives(t) ==
    \/ analysesInFlight(analysisTasks', t) < analysesInFlight(analysisTasks, t)
    \/ /\ compressionsInFlight(compressionTasks, t) > 0
       /\ compressionsOf(compressionTasks', t) # compressionsOf(compressionTasks, t)

\* a removed file does not come back, and a result that arrives for a
\* removed file changes no entry of the queue
LateResultDiscarded ==
    \A t \in FileIds :
        isRemoved(selectedFiles, t)
            => /\ addedAt(selectedFiles', t) = {}
               /\ resultArrives(t) => selectedFiles' = selectedFiles

----------------------------------------------------------------------------
(* Analyses that complete in either order *)

\* the pairs of analyses in flight: two calls with different arguments, or
\* two calls with the same
analysesInFlightPairs(tasks) ==
    { pair \in BagToSet(tasks) \X BagToSet(tasks) :
        pair[1] # pair[2] \/ CopiesIn(pair[1], tasks) >= 2 }

\* the queue after the first analysis of a pair completes with the draw n1 and
\* the second with the draw n2
bothApplied(files, first, n1, second, n2) ==
    analysisApplied(analysisApplied(files, first, n1), second, n2)

\* C13: when several files are analyzed concurrently, the advice and the
\* status that each file ends with are the same for every order in which the
\* analyses complete.
C13_OrderIndependent ==
    \A pair \in analysesInFlightPairs(analysisTasks) :
        \A n1, n2 \in RandomDraws :
            bothApplied(selectedFiles, pair[1], n1, pair[2], n2)
                = bothApplied(selectedFiles, pair[2], n2, pair[1], n1)

----------------------------------------------------------------------------
(* What an analysis changes *)

\* the step starts an analysis again, or ends one in success or in failure
analysisStep == retryAnalysis \/ analyzeFileSucceeds \/ analyzeFileFails

\* g is f but for its status, progress, error and analysis
onlyAnalysisFieldsDiffer(f, g) ==
    g = [f EXCEPT !.status = g.status, !.progress = g.progress,
                  !.error = g.error, !.analysis = g.analysis]

\* the step changes the entries of the id t in those four fields at most, and
\* no other entry
analysisFrame(t) ==
    /\ Len(selectedFiles') = Len(selectedFiles)
    /\ \A i \in DOMAIN selectedFiles :
          IF selectedFiles[i].id = t
          THEN onlyAnalysisFieldsDiffer(selectedFiles[i], selectedFiles'[i])
          ELSE selectedFiles'[i] = selectedFiles[i]

----------------------------------------------------------------------------
(* What the analysis flow returns *)

\* the advice as the specification types it: the schema, an estimate of
\* 0..100, and no estimate exactly when the method is none
conformsToAdvice(v) ==
    /\ AnalyzeCompressionQualityOutputSchema(v)
    /\ v.estimatedReductionPercent.kind = "undefined"
          <=> v.recommendedMethod.value = "none"
    /\ v.estimatedReductionPercent.kind = "number"
          => v.estimatedReductionPercent.value \in 0..100

\* C15: every advice the flow returns conforms to the advice schema and to
\* its coupling rule (estimatedReductionPercent absent exactly when
\* recommendedMethod is none, and within 0..100 when present); a response
\* that does not is rejected as an error.
C15_ReturnedAdviceConforms ==
    flow.pc = "returned" => conformsToAdvice(flow.output)

\* the part of C15 that the schema does enforce
ReturnedAdviceParses ==
    flow.pc = "returned" => AnalyzeCompressionQualityOutputSchema(flow.output)

----------------------------------------------------------------------------
(* Paths that getFile does not know *)

\* getFile has resolved for the call
fileInfoResolved == flow.pc \in {"prompt", "returned", "failed"}

\* C16: for a path that no known file has, getFile resolves to null and the
\* flow fails with 'File not found' instead of producing an advice; for a
\* path of the known list getFile resolves to the entry with that path.
C16_UnknownPathNotFound ==
    fileInfoResolved =>
        IF flow.filePath \in knownPaths
        THEN flow.fileInfo = find(getFiles, flow.filePath)
        ELSE /\ flow.pc = "failed"
             /\ flow.error = "File not found at path"
             /\ flow.fileInfo = jsNull

\* the half of C16 about known paths
KnownPathResolved ==
    (fileInfoResolved /\ flow.filePath \in knownPaths) =>
        /\ flow.fileInfo.path = flow.filePath
        /\ \E i \in DOMAIN getFiles : getFiles[i] = flow.fileInfo

----------------------------------------------------------------------------
(* Letter case of the type, and the two classifiers side by side *)

\* the same letter, in either case
sameLetter(c, d) ==
    \/ c = d
    \/ c \in DOMAIN caseMap /\ caseMap[c] = d
    \/ d \in DOMAIN caseMap /\ caseMap[d] = c
    \/ c \in DOMAIN caseMap /\ d \in DOMAIN caseMap /\ caseMap[c] = caseMap[d]

\* two type strings that differ in letter case at most
differOnlyInCase(s, t) ==
    /\ Len(s) = Len(t)
    /\ \A i \in DOMAIN s : sameLetter(s[i], t[i])

\* two advices with the same shouldCompress, recommendedMethod and estimate
sameDecision(a, b) ==
    /\ a.shouldCompress = b.shouldCompress
    /\ a.recommendedMethod = b.recommendedMethod
    /\ a.estimatedReductionPercent = b.estimatedReductionPercent

\* C17: type matching is case-insensitive: for two descriptors of equal
\* size whose type strings differ only in letter case, the local-queue
\* classifier returns the same shouldCompress, the same recommendedMethod
\* and, draw for draw, the same estimate.
C17_CaseInsensitive ==
    LocalRun =>
        \A other \in MimeTypes :
            differOnlyInCase(other, fileType)
                => sameDecision(run.advice, dummyAnalysis(fileSize, other, run.rnd))

\* an upper-case type is classified by the row of its lower-case spelling
C17_Witness ==
    /\ LocalRun
    /\ fileType = mime_IMAGE_PNG
    /\ differOnlyInCase(mime_image_png, fileType)
    /\ run.advice = losslessImageAdvice(run.rnd)

\* C18: the classifier of the cloud panel and the classifier of the local
\* queue implement the same decision table: for every descriptor and every
\* random outcome they yield the same shouldCompress, the same
\* recommendedMethod and the same estimate.
C18_SameDecisionTable ==
    CloudRun =>
        sameDecision(run.advice, dummyAnalysis(fileSize, fileType, run.rnd))

\* where the two agree: the override is not drawn, and the type is not an
\* already compressed one or the size is outside 100 KB..200 KB - 1 and
\* 5 MB + 1..10 MB
CloudAgreesOutsideThresholds ==
    ( /\ CloudRun
      /\ ~run.override
      /\ \/ ~HasSignal(fileType, CompressedSignals)
         \/ fileSize < 100 * KB
         \/ fileSize >= 200 * KB /\ fileSize <= 5 * MB
         \/ fileSize > 10 * MB )
    => sameDecision(run.advice, dummyAnalysis(fileSize, fileType, run.rnd))

----------------------------------------------------------------------------
(* The status of a file from step to step *)

\* the changes of status that the claim lists
AllowedStatusChanges ==
    { <<"pending", "analyzing">>, <<"analyzing", "pending">>,
      <<"analyzing", "error">>, <<"error", "analyzing">>,
      <<"pending", "compressing">>, <<"error", "compressing">>,
      <<"compressing", "complete">>, <<"compressing", "error">> }

\* f before the step and g after it: the status stays or changes as listed
statusStep(f, g) ==
    f.status = g.status \/ <<f.status, g.status>> \in AllowedStatusChanges

\* a file that is complete stays complete, with its compressedSize
completeStays(f, g) ==
    f.status = "complete"
        => g.status = "complete" /\ g.compressedSize = f.compressedSize

\* C19: in the local queue, under every interleaving of add, retry, start,
\* remove and the asynchronous completions, each status change of a file is
\* one of pending->analyzing, analyzing->pending, analyzing->error,
\* error->analyzing, pending->compressing, error->compressing,
\* compressing->complete, compressing->error; a file that reached complete
\* never changes status again and its compressedSize is never overwritten.
C19_StatusChanges ==
    [][\A i \in DOMAIN selectedFiles, j \in DOMAIN selectedFiles' :
          selectedFiles[i].id = selectedFiles'[j].id
              => /\ statusStep(selectedFiles[i], selectedFiles'[j])
                 /\ completeStays(selectedFiles[i], selectedFiles'[j])]_vars

----------------------------------------------------------------------------
(* The start of the optimization *)

\* the files that are ready to be compressed
isReady(f) == f.status \in {"pending", "error"}

\* the step sets a file to compressing
startStep ==
    \E i \in DOMAIN selectedFiles :
        /\ i \in DOMAIN selectedFiles'
        /\ selectedFiles'[i].id = selectedFiles[i].id
        /\ selectedFiles[i].status # "compressing"
        /\ selectedFiles'[i].status = "compressing"

\* the step sets the ready files to compressing, with progress 0 and without
\* an error, and leaves every other file as it is
startFrame ==
    /\ Len(selectedFiles') = Len(selectedFiles)
    /\ \A i \in DOMAIN selectedFiles :
          selectedFiles'[i] =
              IF isReady(selectedFiles[i])
              THEN [selectedFiles[i] EXCEPT !.status = "compressing",
                                            !.progress = 0, !.error = undefined]
              ELSE selectedFiles[i]

\* C20: handleCompression moves into compressing exactly the files whose
\* status is pending or error at the click, with progress 0 and the error
\* cleared, and leaves the files in analyzing, compressing or complete
\* unchanged; when no file is pending or error, no file is set to
\* compressing and no compression is started.
C20_StartMovesReadyFiles ==
    [][/\ startStep => startFrame
       /\ (\A i \in DOMAIN selectedFiles : ~isReady(selectedFiles[i]))
             => ~startStep /\ ~handleCompression]_vars

\* an optimization runs for a file whose analysis failed, next to a file
\* that is complete and has none running
C20_Witness ==
    \E i, j \in DOMAIN selectedFiles :
        /\ selectedFiles[i].status = "complete"
        /\ \A task \in BagToSet(compressionTasks) :
              task.selectedFile.id # selectedFiles[i].id
        /\ selectedFiles[j].status = "compressing"
        /\ selectedFiles[j].analysis = NullAnalysis

----------------------------------------------------------------------------
(* Progress *)

\* progress, held in units of 1 / steps percent, lies in 0..100, is at most
\* 99 while the file is compressing and is 100 exactly when it is complete
progressInRange(f) ==
    /\ f.progress >= 0
    /\ f.progress <= 100 * steps
    /\ f.status = "compressing" => f.progress <= 99 * steps
    /\ f.progress = 100 * steps <=> f.status = "complete"

\* f before the step and g after it: progress does not go down while the
\* file stays compressing
progressGrows(f, g) ==
    (f.status = "compressing" /\ g.status = "compressing")
        => g.progress >= f.progress

\* C21: for every file of the local queue, progress stays within 0..100, is
\* capped at 99 while the status is compressing, never decreases during one
\* compression run, and equals 100 exactly when the status is complete.
C21_ProgressBounds ==
    [][/\ \A j \in DOMAIN selectedFiles' : progressInRange(selectedFiles'[j])
       /\ \A i \in DOMAIN selectedFiles, j \in DOMAIN selectedFiles' :
             selectedFiles[i].id = selectedFiles'[j].id
                 => progressGrows(selectedFiles[i], selectedFiles'[j])]_vars

----------------------------------------------------------------------------
(* Downloads *)

\* a complete file has its size, its Blob and its file name
hasCompressedData(f) ==
    f.status = "complete"
        => /\ f.compressedSize # undefined
           /\ f.compressedBlob # undefined
           /\ f.compressedFileName # undefined

\* C22: a file has status complete only if its compressedSize,
\* compressedBlob and compressedFileName are all set, so handleDownload on a
\* complete file never takes its 'Compressed file data is not available'
\* branch; a file in any other status has no download performed for it.
C22_CompleteIsDownloadable ==
    [][/\ \A j \in DOMAIN selectedFiles' : hasCompressedData(selectedFiles'[j])
       /\ download'.kind # "error"
       /\ download' # download
             => \E i \in DOMAIN selectedFiles :
                   /\ selectedFiles[i].status = "complete"
                   /\ download'.id = selectedFiles[i].id]_vars

\* the download of a complete file has started
C22_Witness ==
    /\ download.kind = "started"
    /\ \E i \in DOMAIN selectedFiles :
          /\ selectedFiles[i].status = "complete"
          /\ selectedFiles[i].id = download.id
          /\ {download.fileName} = {selectedFiles[i].compressedFileName}

----------------------------------------------------------------------------
(* The size after compression *)

\* size, in whole bytes and twentieths, is at most num / den of originalSize
atMost(size, originalSize, num, den) ==
    (size.bytes * 20 + size.twentieths) * den <= originalSize * 20 * num

\* C23: the compressed size reported for a file never exceeds its original
\* size, for every original size, every selected level and every advice.
C23_CompressedNotLarger ==
    \A i \in DOMAIN selectedFiles :
        \A size \in selectedFiles[i].compressedSize :
            atMost(size, selectedFiles[i].originalSize, 1, 1)

\* the same for the files of 50 bytes and more
CompressedNotLargerFrom50 ==
    \A i \in DOMAIN selectedFiles :
        selectedFiles[i].originalSize >= 50
            => \A size \in selectedFiles[i].compressedSize :
                  atMost(size, selectedFiles[i].originalSize, 1, 1)

\* the file was compressed at the level lossless_optimized and its type has
\* one of the signals text, log and wav
isLosslessText(f) ==
    /\ f.status = "complete"
    /\ \A blob \in f.compressedBlob : blob.level = "lossless_optimized"
    /\ HasSignal(f.file.type, {sig_text, sig_log, sig_wav})

\* C24: when the level selected at start is lossless_optimized and the type
\* of the file contains text, log or wav, the compressedSize of the completed
\* file is at most 40% of its originalSize, for every original size and
\* every advice.
C24_TextAtMostTwoFifths ==
    \A i \in DOMAIN selectedFiles :
        isLosslessText(selectedFiles[i])
            => \A size \in selectedFiles[i].compressedSize :
                  atMost(size, selectedFiles[i].originalSize, 2, 5)

\* the same for the files of 125 bytes and more, for which the least
\* compressed size, 50 bytes or 5%, is within the 40%
TextAtMostTwoFifthsFrom125 ==
    \A i \in DOMAIN selectedFiles :
        (isLosslessText(selectedFiles[i]) /\ selectedFiles[i].originalSize >= 125)
            => \A size \in selectedFiles[i].compressedSize :
                  atMost(size, selectedFiles[i].originalSize, 2, 5)


----------------------------------------------------------------------------
(* C25: whenever the user is logged out the suggestions list of the page is
   empty, also when a call of fetchSuggestions that was waiting at the logout
   comes to its end *)
C25_LoggedOutNoSuggestions == ~isLoggedIn => suggestions = <<>>

\* a call that goes on to its end after a logout leaves the error as it was
LateFetchRaisesNoError ==
    [][(fetchSuggestionsResolves /\ ~isLoggedIn) => fetchError' = fetchError]_vars

----------------------------------------------------------------------------
(* C26: handleLogin fetches the suggestions at once: the step of handleLogin
   leaves one more call of fetchSuggestions waiting, with the loading flag
   set *)
C26_LoginFetches ==
    [][handleLogin =>
          /\ BagCardinality(fetchTasks') = BagCardinality(fetchTasks) + 1
          /\ isLoadingSuggestions']_vars

\* a login leads to the suggestion set or to a logout
LoginLeadsToSuggestions ==
    (isLoggedIn /\ suggestions = <<>>) ~> (suggestions = dummySuggestions \/ ~isLoggedIn)

\* handleLogin starts no call: before and after it the same calls wait
LoginStartsNoFetch == [][handleLogin => fetchTasks' = fetchTasks]_vars

----------------------------------------------------------------------------
(* C27: the loading flag always ends up false: a page that is loading comes
   to a state where it is not; every call of fetchSuggestions that comes to
   its end, by its last line or by its catch branch, with the user logged in
   or logged out by then, leaves the flag false; and the flag goes from
   false to true only in a step that starts a call *)
fetchStarts ==
    fetchTasks' = fetchTasks (+) SetToBag({FetchTask(TRUE)})

fetchEnds ==
    \E task \in BagToSet(fetchTasks) : fetchTasks' = fetchTasks (-) SetToBag({task})

C27_LoadingEndsFalse ==
    /\ isLoadingSuggestions ~> ~isLoadingSuggestions
    /\ [][/\ fetchEnds => ~isLoadingSuggestions'
          /\ (~isLoadingSuggestions /\ isLoadingSuggestions') => fetchStarts]_vars

\* the user has logged out during a call, the call has come to its end, and
\* the flag is false
C27_Witness ==
    /\ ~isLoggedIn
    /\ suggestions = dummySuggestions
    /\ fetchTasks = EmptyBag
    /\ ~isLoadingSuggestions
====
